---- MODULE Spec2Model ----
(***************************************************************************)
(* Model of the microweb WebSocket subsystem: the server Hub (ws.go) with  *)
(* its per-connection read and write pumps, and the reconnecting client    *)
(* WsClient (wsclient.go).                                                 *)
(*                                                                         *)
(* Go semantics kept by the model:                                         *)
(*  - an unbuffered channel send is a rendezvous: the sender stays parked  *)
(*    until the Hub loop takes the receive step;                           *)
(*  - "select { case ch <- m: default: }" enqueues when there is room,     *)
(*    takes the default branch when the buffer is full and panics when the *)
(*    channel is closed;                                                   *)
(*  - close() of a closed channel panics;                                  *)
(*  - a receive from a closed channel drains the buffer first and then     *)
(*    yields ok = false;                                                   *)
(*  - sync.RWMutex: Lock excludes everybody, RLock excludes only Lock.     *)
(***************************************************************************)
EXTENDS Integers, Sequences, FiniteSets, TLC

\* ---------------------------------------------------------------- bounds
QueueCap == 1      \* capacity of Client.send (256 in serveWs)
MaxOps   == 2      \* accepts, inbound frames and application calls in one run
MaxCbs   == 1      \* callbacks registered per event and connection
MaxFaults == 1     \* read errors and write failures of sockets still open
CliQueueCap == 2   \* capacity of WsClient.sendChan (100 in NewWsClient)
MaxCliOps   == 3   \* dials, inbound frames and calls of a WsClient in one run
MaxRegs  == 3      \* calls of Client.On for one event of one Client
MaxEmits == 2      \* emissions of that event
MaxNum   == 1      \* largest magnitude of a number held by a WsData
MaxJsonLen == 4    \* tokens of an inbound frame handed to NewWsData

\* Identities of the connections that may be accepted.
Conns  == {1, 2}
\* Frame contents are opaque to the code.  A frame carries the serial of the
\* call that produced it (the remaining budget at the call), a reply the
\* negated serial of the inbound frame it answers, and a frame queued before
\* the run starts a serial above MaxOps.
Reply(serial) == 0 - serial
\* the text {} written in reply to the inbound frame of that serial
EmptyObject(serial) == 0 - MaxOps - MaxCliOps - serial
Earlier(i)    == MaxOps + i
Nil    == 0
Events == {"open", "close", "error"}
\* The functions an application passes to Client.On.
Callbacks == {"f", "g"}

\* Read errors ReadMessage can return: deadline expiry, a network error
\* (including a locally closed socket) and peer close frames by code.
ErrKinds == {"timeout", "net", "close1000", "close1001", "close1002", "close1006"}

PanicSend  == "send on closed channel"
PanicClose == "close of closed channel"
FatalMap   == "concurrent map read and map write"
PanicHandler == "panic in the message handler"
PanicNilMap == "assignment to entry in nil map"

VARIABLES
    clients,    \* WsHub.clients: identities present in the map
    sendq,      \* Client.send: buffered frames, per connection
    closes,     \* number of close(client.send) executed, per connection
    connClosed, \* client.conn closed locally, per connection
    muW,        \* WsHub.mu held exclusively
    muR,        \* workers holding WsHub.mu shared
    hpc,        \* position of WsHub.Run
    hcmd,       \* command WsHub.Run is processing
    htodo,      \* broadcast: map entries not yet visited by the range
    spc,        \* position of serveWs, per connection
    rpc,        \* position of readPump, per connection
    rret,       \* where readPump resumes after a parked unregister send
    rcb,        \* callbacks of the current emit still to run
    rin,        \* serial of the inbound frame the handler is working on
    rdata,      \* ctx.Data of that call of the handler
    rerr,       \* readPump got an error from ReadMessage
    rpanic,     \* readPump is unwinding a panic
    wpc,        \* position of writePump, per connection
    wframe,     \* messages written into the current NextWriter
    sock,       \* frames written to the socket, per connection
    cbs,        \* Client.events: number of callbacks per event
    events,     \* lifecycle events emitted, per connection
    apc,        \* position of the application worker using the Hub API
    aarg,       \* arguments of the application worker's call
    panics,     \* panics raised so far
    crashed,    \* the process died of an unrecovered panic: no step follows
    accepted,   \* frames accepted into Client.send so far (history)
    budget,     \* remaining inbound frames / application calls
    faults,     \* remaining read errors / write failures of open sockets
    kpc,          \* position of WsClient.Connect ("none": no WsClient exists)
    ctxDone,      \* the context passed to Connect has been cancelled
    conn,         \* WsClient.conn: "nil", "open" or "closed"
    isConnected,  \* WsClient.isConnected
    isRunning,    \* WsClient.isRunning
    attemptCount, \* attemptCount of Connect
    sendChan,     \* WsClient.sendChan: buffered frames
    chanCloses,   \* number of close(c.sendChan) executed
    lrpc,         \* position of readLoop
    lin,          \* serial of the inbound frame the client handler works on,
                  \* then the reply frame Send is called with
    lwpc,         \* position of writeLoop
    upc,          \* position of the worker calling WsClient.Send and Close
    uarg,         \* the frame that worker is sending
    wire,         \* frames the WsClient wrote to its sockets
    queued,       \* frames accepted into sendChan so far (history)
    cevents,      \* events handed to the client handler
    cbudget,      \* remaining dials, inbound frames and calls of the client
    epc,          \* position of Client.emit for one event of one Client
    registered,   \* c.events[event] of that Client: the callbacks, in order
    handlers,     \* the local variable handlers of emit
    hidx,         \* index of the range loop of emit
    invoked,      \* callbacks called by the current or the last emit
    ebudget,      \* remaining emissions
    jpc,          \* position of one conversion between WsData and JSON
    wsData,       \* the WsData ToJSON is called on
    message,      \* JSON text, as a sequence of tokens
    parsed        \* what NewWsData(message) returned

hubVars  == <<clients, muW, muR, hpc, hcmd, htodo>>
connVars == <<sendq, closes, connClosed, accepted>>
rVars    == <<rpc, rret, rcb, rin, rdata, rerr, rpanic>>
wVars    == <<wpc, wframe, sock>>
appVars  == <<apc, aarg>>
\* the server side but for panics and crashed, which belong to the process
serverVars == <<hubVars, connVars, rVars, wVars, appVars, spc, cbs, events, budget,
                faults>>
\* the WsClient side
cliVars  == <<kpc, ctxDone, conn, isConnected, isRunning, attemptCount, sendChan, chanCloses,
              lrpc, lin, lwpc, upc, uarg, wire, queued, cevents, cbudget>>
\* one event of one Client with the identity of its callbacks kept
emitVars == <<epc, registered, handlers, hidx, invoked, ebudget>>
\* one conversion of a WsData to JSON and back, or of a frame to a WsData
codecVars == <<jpc, wsData, message, parsed>>
vars == <<clients, sendq, closes, connClosed, muW, muR, hpc, hcmd, htodo,
          spc, rpc, rret, rcb, rin, rdata, rerr, rpanic, wpc, wframe, sock, cbs, events,
          apc, aarg, panics, crashed, accepted, budget, faults, cliVars, emitVars, codecVars>>

NoCmd == [kind |-> "none", c |-> 0, m |-> Nil]
NoArg == [op |-> "none", id |-> 0, m |-> Nil]

\* ------------------------------------------------------- channel helpers
IsClosed(c) == closes[c] > 0

\* Outcome of "select { case client.send <- m: default: }".
TrySend(c) ==
    IF IsClosed(c) THEN "panic"
    ELSE IF Len(sendq[c]) < QueueCap THEN "ok"
    ELSE "full"

\* A send that leaves two copies of the frame in the queue.
EnqueueTwice(c, m) ==
    /\ sendq' = [sendq EXCEPT ![c] = Append(Append(@, m), m)]
    /\ accepted' = [accepted EXCEPT ![c] = Append(Append(@, m), m)]

Enqueue(c, m) ==
    /\ sendq' = [sendq EXCEPT ![c] = Append(@, m)]
    /\ accepted' = [accepted EXCEPT ![c] = Append(@, m)]

\* close(client.send): the second close of a channel panics.
CloseQueue(c) == closes' = [closes EXCEPT ![c] = @ + 1]

\* A variant that takes every error but the two listed close codes for an
\* unexpected close, the expiry of the read deadline included.
IsUnexpectedCloseErrorAny(k) == k \notin {"close1001", "close1006"}

\* A variant whose list of expected codes holds CloseGoingAway only.
IsUnexpectedCloseErrorGoingAway(k) ==
    /\ k \in {"close1000", "close1001", "close1002", "close1006"}
    /\ k # "close1001"

\* websocket.IsUnexpectedCloseError(err, CloseGoingAway, CloseAbnormalClosure)
IsUnexpectedCloseError(k) ==
    /\ k \in {"close1000", "close1001", "close1002", "close1006"}
    /\ k \notin {"close1001", "close1006"}

RECURSIVE Flatten(_)
Flatten(fs) ==
    IF fs = <<>> THEN <<>>
    ELSE (IF Head(fs).t = "text" THEN Head(fs).msgs ELSE <<>>) \o Flatten(Tail(fs))

\* A read or a write on the socket of c fails: for certain once the socket
\* has been closed locally, and otherwise because of the peer or the
\* network, which the run allows a bounded number of times.
SocketFails(c) ==
    IF connClosed[c]
    THEN UNCHANGED faults
    ELSE faults > 0 /\ faults' = faults - 1

\* ---------------------------------------------------- WsData and JSON
\* A value held by a map[string]interface{}: its dynamic type t and its
\* contents.  A string is kept in s, an int in n, a bool as n = 1 or 0, a
\* float64 in n as a count of halves (2.5 is 5, 1.0 is 2), a nested
\* map[string]interface{} in m.
EmptyMap == [k \in {} |-> 0]
GoNil        == [t |-> "nil",     s |-> "", n |-> 0, m |-> EmptyMap]
GoString(x)  == [t |-> "string",  s |-> x,  n |-> 0, m |-> EmptyMap]
GoInt(x)     == [t |-> "int",     s |-> "", n |-> x, m |-> EmptyMap]
GoFloat64(h) == [t |-> "float64", s |-> "", n |-> h, m |-> EmptyMap]
GoBool(b)    == [t |-> "bool",    s |-> "", n |-> IF b THEN 1 ELSE 0, m |-> EmptyMap]
GoMap(kv)    == [t |-> "map",     s |-> "", n |-> 0, m |-> kv]

\* A WsData is a map that may be nil; a nil map has no keys.
NilWsData  == [nil |-> TRUE, kv |-> EmptyMap]
MakeWsData(kv) == [nil |-> FALSE, kv |-> kv]

Keys       == {"a", "b"}
NestedKeys == {"n"}
\* every key, in the order json.Marshal writes the keys of a map (sorted)
KeyOrder   == <<"a", "b", "n">>

Scalars ==
    {GoNil, GoString("a")}
      \cup {GoInt(x) : x \in -MaxNum..MaxNum}
      \cup {GoFloat64(h) : h \in (-2 * MaxNum)..(2 * MaxNum)}
      \cup {GoBool(b) : b \in BOOLEAN}

MapsOver(keys, vals) == UNION {[ks -> vals] : ks \in SUBSET keys}

Values == Scalars \cup {GoMap(kv) : kv \in MapsOver(NestedKeys, Scalars)}

\* The WsData values a handler or the application may build.
Payloads == {NilWsData} \cup {MakeWsData(kv) : kv \in MapsOver(Keys, Values)}

\* JSON text is kept token by token; a number token stands for the decimal
\* numeral of n halves ("1" is 2, "0.5" is 1), whoever wrote it.
Tok(k)    == [k |-> k, s |-> "", n |-> 0]
StrTok(x) == [k |-> "string", s |-> x, n |-> 0]
NumTok(h) == [k |-> "number", s |-> "", n |-> h]

\* The frames a peer may send: every token sequence up to MaxJsonLen.
JsonTokens ==
    {Tok("{"), Tok("}"), Tok(":"), Tok(","), Tok("null"), StrTok("a"), NumTok(2)}
Frames == UNION {[1..len -> JsonTokens] : len \in 0..MaxJsonLen}

SortedKeys(kv) == SelectSeq(KeyOrder, LAMBDA k : k \in DOMAIN kv)

\* json.Marshal of a value by its dynamic type: an int and a float64 of
\* the same number give the same numeral.
RECURSIVE MarshalValue(_), MarshalMembers(_, _)
MarshalValue(v) ==
    CASE v.t = "nil"     -> <<Tok("null")>>
      [] v.t = "string"  -> <<StrTok(v.s)>>
      [] v.t = "int"     -> <<NumTok(2 * v.n)>>
      [] v.t = "float64" -> <<NumTok(v.n)>>
      [] v.t = "bool"    -> <<Tok(IF v.n = 1 THEN "true" ELSE "false")>>
      [] v.t = "map"     ->
           <<Tok("{")>> \o MarshalMembers(v.m, SortedKeys(v.m)) \o <<Tok("}")>>

MarshalMembers(kv, keys) ==
    IF keys = <<>> THEN <<>>
    ELSE <<StrTok(Head(keys)), Tok(":")>> \o MarshalValue(kv[Head(keys)])
           \o (IF Tail(keys) = <<>> THEN <<>> ELSE <<Tok(",")>>)
           \o MarshalMembers(kv, Tail(keys))

\* json.Marshal(w): a nil map is written as null
Marshal(w) == IF w.nil THEN <<Tok("null")>> ELSE MarshalValue(GoMap(w.kv))

\* func (w WsData) ToJSON() []byte: data, _ := json.Marshal(w)
ToJSON(w) == Marshal(w)

Put(kv, k, v) == [x \in DOMAIN kv \cup {k} |-> IF x = k THEN v ELSE kv[x]]

NoParse == [ok |-> FALSE, v |-> GoNil, rest |-> <<>>]
Parsed(v, rest) == [ok |-> TRUE, v |-> v, rest |-> rest]

\* The decoder of encoding/json for a target of type interface{}: every
\* number becomes a float64, an object a map[string]interface{} in which
\* the last of two equal keys wins.
RECURSIVE ParseValue(_), ParseMembers(_, _)
ParseValue(toks) ==
    IF toks = <<>> THEN NoParse
    ELSE LET h == Head(toks)
             r == Tail(toks)
         IN CASE h.k = "null"   -> Parsed(GoNil, r)
              [] h.k = "string" -> Parsed(GoString(h.s), r)
              [] h.k = "number" -> Parsed(GoFloat64(h.n), r)
              [] h.k = "true"   -> Parsed(GoBool(TRUE), r)
              [] h.k = "false"  -> Parsed(GoBool(FALSE), r)
              [] h.k = "{"      ->
                   IF r # <<>> /\ Head(r).k = "}"
                   THEN Parsed(GoMap(EmptyMap), Tail(r))
                   ELSE ParseMembers(r, EmptyMap)
              [] OTHER -> NoParse

ParseMembers(toks, kv) ==
    IF Len(toks) < 3 \/ toks[1].k # "string" \/ toks[2].k # ":" THEN NoParse
    ELSE LET pv == ParseValue(SubSeq(toks, 3, Len(toks)))
         IN IF ~pv.ok \/ pv.rest = <<>> THEN NoParse
            ELSE LET kv2 == Put(kv, toks[1].s, pv.v)
                     sep == Head(pv.rest)
                 IN CASE sep.k = "}" -> Parsed(GoMap(kv2), Tail(pv.rest))
                      [] sep.k = "," -> ParseMembers(Tail(pv.rest), kv2)
                      [] OTHER -> NoParse

\* json.Unmarshal(jsonBytes, &data) with "var data map[string]interface{}":
\* a text that is not one JSON value is a syntax error, a value that is
\* neither an object nor null a type error; null leaves data nil.
Unmarshal(jsonBytes) ==
    LET pv == ParseValue(jsonBytes)
    IN IF ~pv.ok \/ pv.rest # <<>> THEN [err |-> "syntax", data |-> NilWsData]
       ELSE IF pv.v.t = "nil" THEN [err |-> "", data |-> NilWsData]
       ELSE IF pv.v.t = "map" THEN [err |-> "", data |-> MakeWsData(pv.v.m)]
       ELSE [err |-> "type", data |-> NilWsData]

\* A variant that reports the error in the WsData it returns, as readPump
\* does for a read error.
NewWsDataReporting(jsonBytes) ==
    LET u == Unmarshal(jsonBytes)
    IN IF u.err # ""
       THEN MakeWsData([k \in {"error"} |-> GoString(u.err)])
       ELSE u.data

\* if err := json.Unmarshal(jsonBytes, &data); err != nil { return
\* make(WsData) }; return WsData(data)
NewWsData(jsonBytes) ==
    LET u == Unmarshal(jsonBytes)
    IN IF u.err # "" THEN MakeWsData(EmptyMap) ELSE u.data

\* WsData.Int: an int as it is, a float64 truncated toward zero
WsDataInt(w, key) ==
    IF key \notin DOMAIN w.kv THEN 0
    ELSE LET v == w.kv[key]
         IN CASE v.t = "int" -> v.n
              [] v.t = "float64" ->
                   IF v.n >= 0 THEN v.n \div 2 ELSE 0 - ((0 - v.n) \div 2)
              [] OTHER -> 0

\* WsData.Float: a float64 only, in halves
WsDataFloat(w, key) ==
    IF key \notin DOMAIN w.kv THEN 0
    ELSE LET v == w.kv[key]
         IN IF v.t = "float64" THEN v.n ELSE 0

\* What a message handler may return: no reply, a WsData without keys and
\* one with a key.
Replies ==
    {NilWsData, MakeWsData(EmptyMap), MakeWsData([k \in {"a"} |-> GoString("a")])}

\* The frame Send makes of a reply with "message = v.ToJSON()", told from
\* the other frames of the run by the serial of the frame it answers: the
\* text {} for a WsData without keys.
ReplyFrame(reply, serial) ==
    IF ToJSON(reply) = <<Tok("{"), Tok("}")>> THEN EmptyObject(serial)
    ELSE Reply(serial)

\* The frames a peer sends in a run of the server: an object, an object
\* cut off after its first key, and null.
InboundFrames ==
    {<<Tok("{"), StrTok("a"), Tok(":"), StrTok("a"), Tok("}")>>,
     <<Tok("{"), StrTok("a")>>,
     <<Tok("null")>>}

\* No conversion is followed.
NoCodec ==
    /\ jpc = "off"
    /\ wsData = NilWsData
    /\ message = <<>>
    /\ parsed = NilWsData

\* ------------------------------------------------------------------ Init
\* What is the same in every start state but for the Hub loop and the
\* application worker: nobody holds the lock, no pump runs.
InitQuiet ==
    /\ muW = FALSE
    /\ muR = {}
    /\ hcmd = NoCmd
    /\ htodo = {}
    /\ rret = [c \in Conns |-> "none"]
    /\ rcb = [c \in Conns |-> 0]
    /\ rin = [c \in Conns |-> 0]
    /\ rdata = [c \in Conns |-> NilWsData]
    /\ rerr = [c \in Conns |-> FALSE]
    /\ rpanic = [c \in Conns |-> FALSE]
    /\ wframe = [c \in Conns |-> <<>>]
    /\ sock = [c \in Conns |-> <<>>]
    /\ closes = [c \in Conns |-> 0]
    /\ connClosed = [c \in Conns |-> FALSE]
    /\ aarg = NoArg
    /\ panics = {}
    /\ crashed = FALSE

\* What is the same in every start state: the Hub loop waits for a command,
\* nobody holds the lock, the application worker is idle.
InitCommon ==
    /\ hpc = "select"
    /\ apc = "idle"
    /\ InitQuiet

\* A server process: no WsClient has been constructed.
NoWsClient ==
    /\ kpc = "none"
    /\ ctxDone = FALSE
    /\ conn = "nil"
    /\ isConnected = 0
    /\ isRunning = 0
    /\ attemptCount = 0
    /\ sendChan = <<>>
    /\ chanCloses = 0
    /\ lrpc = "off"
    /\ lin = 0
    /\ lwpc = "off"
    /\ upc = "idle"
    /\ uarg = Nil
    /\ wire = <<>>
    /\ queued = <<>>
    /\ cevents = <<>>
    /\ cbudget = 0

\* No Client is followed callback by callback.
NoEmitter ==
    /\ epc = "off"
    /\ registered = <<>>
    /\ handlers = <<>>
    /\ hidx = 0
    /\ invoked = <<>>
    /\ ebudget = 0

\* The connections of the set live are registered and their pumps run
\* (serveWs has returned); no other client connects in the run (accepts
\* are explored from InitFresh).
Live(live) ==
    /\ clients = live
    /\ spc = [c \in Conns |-> IF c \in live THEN "started" ELSE "absent"]
    /\ rpc = [c \in Conns |-> IF c \in live THEN "read" ELSE "off"]
    /\ wpc = [c \in Conns |-> IF c \in live THEN "select" ELSE "off"]
    /\ events = [c \in Conns |-> IF c \in live THEN <<[ev |-> "open", n |-> 0]>> ELSE <<>>]

\* NewWsHub and "go Hub.Run()": no connection yet.
InitFresh ==
    /\ InitCommon
    /\ NoCodec
    /\ NoWsClient
    /\ NoEmitter
    /\ clients = {}
    /\ spc = [c \in Conns |-> "idle"]
    /\ rpc = [c \in Conns |-> "off"]
    /\ wpc = [c \in Conns |-> "off"]
    /\ events = [c \in Conns |-> <<>>]
    /\ sendq = [c \in Conns |-> <<>>]
    /\ accepted = [c \in Conns |-> <<>>]
    /\ cbs = [c \in Conns |-> [e \in Events |-> 0]]
    /\ budget = MaxOps
    /\ faults = MaxFaults

\* The connections of the set live are live and the queue of connection 1
\* has been filled to capacity by earlier sends its write pump has not
\* taken yet; ops operations and flt socket failures are left.
InitSaturated(live, ops, flt) ==
    /\ InitCommon
    /\ NoCodec
    /\ NoWsClient
    /\ NoEmitter
    /\ Live(live)
    /\ sendq = [c \in Conns |-> IF c = 1 THEN [i \in 1..QueueCap |-> Earlier(i)] ELSE <<>>]
    /\ accepted = sendq
    /\ cbs = [c \in Conns |-> [e \in Events |-> 0]]
    /\ budget = ops
    /\ faults = flt

\* Connection 1 is live and an earlier call of its handler has registered a
\* callback for the error and for the close event.
InitCallbacks ==
    /\ InitCommon
    /\ NoCodec
    /\ NoWsClient
    /\ NoEmitter
    /\ Live({1})
    /\ sendq = [c \in Conns |-> <<>>]
    /\ accepted = [c \in Conns |-> <<>>]
    /\ cbs = [c \in Conns |-> [e \in Events |-> IF c = 1 /\ e # "open" THEN 1 ELSE 0]]
    /\ budget = MaxOps
    /\ faults = MaxFaults

\* NewWsClient in a process that accepts no WebSocket connection: nothing
\* is ever sent to the Hub.
InitWsClient ==
    /\ InitCommon
    /\ NoCodec
    /\ NoEmitter
    /\ Live({})
    /\ sendq = [c \in Conns |-> <<>>]
    /\ accepted = [c \in Conns |-> <<>>]
    /\ cbs = [c \in Conns |-> [e \in Events |-> 0]]
    /\ budget = 0
    /\ faults = 0
    /\ kpc = "new"
    /\ ctxDone = FALSE
    /\ conn = "nil"
    /\ isConnected = 0
    /\ isRunning = 1
    /\ attemptCount = 0
    /\ sendChan = <<>>
    /\ chanCloses = 0
    /\ lrpc = "off"
    /\ lin = 0
    /\ lwpc = "off"
    /\ upc = "idle"
    /\ uarg = Nil
    /\ wire = <<>>
    /\ queued = <<>>
    /\ cevents = <<>>
    /\ cbudget = MaxCliOps

\* A Client right after serveWs built it, "events: make(map...)", of which
\* only the callbacks of one event and the emissions of that event are
\* followed; the rest of the process is left out.
InitEmitter ==
    /\ InitCommon
    /\ NoCodec
    /\ NoWsClient
    /\ Live({})
    /\ sendq = [c \in Conns |-> <<>>]
    /\ accepted = [c \in Conns |-> <<>>]
    /\ cbs = [c \in Conns |-> [e \in Events |-> 0]]
    /\ budget = 0
    /\ faults = 0
    /\ epc = "idle"
    /\ registered = <<>>
    /\ handlers = <<>>
    /\ hidx = 0
    /\ invoked = <<>>
    /\ ebudget = MaxEmits

\* One conversion, the rest of the process left out: either a WsData about
\* to be written with ToJSON and read back, or a frame that has arrived
\* and is about to be handed to NewWsData.
InitCodec ==
    /\ InitCommon
    /\ NoWsClient
    /\ NoEmitter
    /\ Live({})
    /\ sendq = [c \in Conns |-> <<>>]
    /\ accepted = [c \in Conns |-> <<>>]
    /\ cbs = [c \in Conns |-> [e \in Events |-> 0]]
    /\ budget = 0
    /\ faults = 0
    /\ parsed = NilWsData
    /\ \/ /\ jpc = "data"
          /\ wsData \in Payloads
          /\ message = <<>>
       \/ /\ jpc = "frame"
          /\ wsData = NilWsData
          /\ message \in Frames

\* A server process before its first call of Router.Ws: the global Hub is
\* nil, or the application has assigned it with "microweb.Hub =
\* microweb.NewWsHub(config)", and the application worker is still setting
\* the router up.
InitNoRoute ==
    /\ InitQuiet
    /\ hpc \in {"nil", "assigned"}
    /\ apc = "setup"
    /\ NoCodec
    /\ NoWsClient
    /\ NoEmitter
    /\ clients = {}
    /\ spc = [c \in Conns |-> "idle"]
    /\ rpc = [c \in Conns |-> "off"]
    /\ wpc = [c \in Conns |-> "off"]
    /\ events = [c \in Conns |-> <<>>]
    /\ sendq = [c \in Conns |-> <<>>]
    /\ accepted = [c \in Conns |-> <<>>]
    /\ cbs = [c \in Conns |-> [e \in Events |-> 0]]
    /\ budget = MaxOps
    /\ faults = MaxFaults

\* The state after construction of a server or of a WsClient, three
\* server states reached by accepts, inbound frames and sends, from which
\* the budget of a run is counted anew, and a Client whose callbacks are
\* followed one by one.
Init ==
    \/ InitFresh
    \/ InitCallbacks
    \/ InitSaturated({1}, MaxOps, MaxFaults)
    \/ InitSaturated(Conns, MaxOps - 1, MaxFaults - 1)
    \/ InitWsClient
    \/ InitEmitter
    \/ InitCodec
    \/ InitNoRoute

\* ------------------------------------------------------------- Router.Ws
\* if Hub == nil { Hub = NewWsHub(DefaultWsConfig()); go Hub.Run() }, then
\* the route is registered.  A Hub that is not nil is left as it is: "new"
\* is a Hub whose Run was not started.
RouterWs ==
    /\ ~crashed
    /\ apc = "setup"
    /\ hpc' = IF hpc = "nil" THEN "select" ELSE "new"
    /\ apc' = "idle"
    /\ UNCHANGED <<clients, muW, muR, hcmd, htodo, connVars, spc, rVars, wVars,
                   cbs, events, aarg, panics, crashed, budget>>
    /\ UNCHANGED <<cliVars, emitVars, codecVars, faults>>

\* serveWs for a Hub whose loop does not run: "hub.register <- client"
\* finds no receiver and the worker of the request stays parked.
ServeWsPark(c) ==
    /\ ~crashed
    /\ hpc = "new"
    /\ spc[c] = "idle"
    /\ \A d \in Conns : d < c => spc[d] # "idle"
    /\ budget > 0
    /\ budget' = budget - 1
    /\ spc' = [spc EXCEPT ![c] = "registerWait"]
    /\ UNCHANGED <<hubVars, connVars, rVars, wVars, cbs, events, appVars,
                   panics, crashed>>
    /\ UNCHANGED <<cliVars, emitVars, codecVars, faults>>

\* ------------------------------------------------- serveWs (accept glue)
\* client.emit("open", ctx) runs the callbacks registered so far, then both
\* pumps are started.
ServeWsOpen(c) ==
    /\ ~crashed
    /\ spc[c] = "open"
    /\ events' = [events EXCEPT ![c] = Append(@, [ev |-> "open", n |-> cbs[c]["open"]])]
    /\ spc' = [spc EXCEPT ![c] = "started"]
    /\ wpc' = [wpc EXCEPT ![c] = "select"]
    /\ rpc' = [rpc EXCEPT ![c] = "read"]
    /\ UNCHANGED <<hubVars, connVars, rret, rcb, rin, rdata, rerr, rpanic, wframe,
                   sock, cbs, appVars, panics, crashed, budget>>
    /\ UNCHANGED <<cliVars, emitVars, codecVars, faults>>

\* ------------------------------------------------------------ WsHub.Run
\* h.mu.Lock() right after a register or unregister command was received:
\* the loop has the lock at once when nobody holds it and waits otherwise.
TakeLock(locked, waiting) ==
    IF ~muW /\ muR = {}
    THEN muW' = TRUE /\ hpc' = locked
    ELSE muW' = muW /\ hpc' = waiting

\* serveWs upgraded the request, built the Client and sent it on
\* hub.register; case client := <-h.register: h.mu.Lock().  Identities are
\* generated fresh, so the model hands them out in order.
HubRecvRegister(c) ==
    /\ ~crashed
    /\ hpc = "select"
    /\ spc[c] = "idle"
    /\ \A d \in Conns : d < c => spc[d] # "idle"
    /\ budget > 0
    /\ budget' = budget - 1
    /\ TakeLock("regLocked", "regLock")
    /\ hcmd' = [kind |-> "register", c |-> c, m |-> Nil]
    /\ spc' = [spc EXCEPT ![c] = "open"]
    /\ UNCHANGED <<clients, muR, htodo, connVars, rVars, wVars, cbs, events,
                   appVars, panics, crashed>>
    /\ UNCHANGED <<cliVars, emitVars, codecVars, faults>>

\* case client := <-h.unregister: h.mu.Lock(), the sender being a read pump
\* parked in Client.Send, in Client.Close or in its deferred teardown
HubRecvUnregisterPump(c) ==
    /\ ~crashed
    /\ hpc = "select"
    /\ rpc[c] \in {"sendFull", "closeWait", "teardown"}
    /\ TakeLock("unregLocked", "unregLock")
    /\ hcmd' = [kind |-> "unregister", c |-> c, m |-> Nil]
    /\ rpc' = [rpc EXCEPT ![c] = IF @ = "teardown" THEN "closing" ELSE rret[c]]
    /\ rret' = [rret EXCEPT ![c] = "none"]
    /\ UNCHANGED <<clients, muR, htodo, connVars, rcb, rin, rdata, rerr, rpanic, spc, wVars,
                   cbs, events, appVars, panics, crashed, budget>>
    /\ UNCHANGED <<cliVars, emitVars, codecVars, faults>>

\* case client := <-h.unregister: h.mu.Lock(), the sender being WsHub.Close
HubRecvUnregisterApp ==
    /\ ~crashed
    /\ hpc = "select"
    /\ apc = "closeWait"
    /\ TakeLock("unregLocked", "unregLock")
    /\ hcmd' = [kind |-> "unregister", c |-> aarg.id, m |-> Nil]
    /\ apc' = "idle"
    /\ aarg' = NoArg
    /\ UNCHANGED <<clients, muR, htodo, connVars, rVars, spc, wVars, cbs,
                   events, panics, crashed, budget>>
    /\ UNCHANGED <<cliVars, emitVars, codecVars, faults>>

\* case msg := <-h.sendMsg: h.mu.RLock(), which never waits because the
\* loop is the only worker that takes the lock exclusively
HubRecvSend ==
    /\ ~crashed
    /\ hpc = "select"
    /\ apc = "sendWait"
    /\ muR' = muR \cup {"hub"}
    /\ hpc' = "sendLocked"
    /\ hcmd' = [kind |-> "sendMsg", c |-> aarg.id, m |-> aarg.m]
    /\ apc' = "idle"
    /\ aarg' = NoArg
    /\ UNCHANGED <<clients, muW, htodo, connVars, rVars, spc, wVars, cbs,
                   events, panics, crashed, budget>>
    /\ UNCHANGED <<cliVars, emitVars, codecVars, faults>>

\* case msg := <-h.broadcast: h.mu.RLock(); the range starts over the
\* entries present now
HubRecvBroadcast ==
    /\ ~crashed
    /\ hpc = "select"
    /\ apc = "bcastWait"
    /\ muR' = muR \cup {"hub"}
    /\ hpc' = "bcastLocked"
    /\ hcmd' = [kind |-> "broadcast", c |-> 0, m |-> aarg.m]
    /\ htodo' = clients
    /\ apc' = "idle"
    /\ aarg' = NoArg
    /\ UNCHANGED <<clients, muW, connVars, rVars, spc, wVars, cbs,
                   events, panics, crashed, budget>>
    /\ UNCHANGED <<cliVars, emitVars, codecVars, faults>>

\* h.mu.Lock() returns once the readers have left
HubLock ==
    /\ ~crashed
    /\ hpc \in {"regLock", "unregLock"}
    /\ ~muW /\ muR = {}
    /\ muW' = TRUE
    /\ hpc' = IF hpc = "regLock" THEN "regLocked" ELSE "unregLocked"
    /\ UNCHANGED <<clients, muR, hcmd, htodo, connVars, spc, rVars, wVars, cbs,
                   events, appVars, panics, crashed, budget>>
    /\ UNCHANGED <<cliVars, emitVars, codecVars, faults>>

\* A register case that keeps one entry only, as if every client had the
\* same Id.
HubRegisterReplacing ==
    /\ ~crashed
    /\ hpc = "regLocked"
    /\ clients' = {hcmd.c}
    /\ muW' = FALSE
    /\ hpc' = "select"
    /\ hcmd' = NoCmd
    /\ UNCHANGED <<muR, htodo, connVars, spc, rVars, wVars, cbs, events,
                   appVars, panics, crashed, budget>>
    /\ UNCHANGED <<cliVars, emitVars, codecVars, faults>>

\* h.clients[client.Id] = client; h.mu.Unlock()
HubRegister ==
    /\ ~crashed
    /\ hpc = "regLocked"
    /\ clients' = clients \cup {hcmd.c}
    /\ muW' = FALSE
    /\ hpc' = "select"
    /\ hcmd' = NoCmd
    /\ UNCHANGED <<muR, htodo, connVars, spc, rVars, wVars, cbs, events,
                   appVars, panics, crashed, budget>>
    /\ UNCHANGED <<cliVars, emitVars, codecVars, faults>>

\* HubUnregister that deletes the map entry and leaves the queue open.
HubUnregisterKeepingQueue ==
    /\ ~crashed
    /\ hpc = "unregLocked"
    /\ clients' = clients \ {hcmd.c}
    /\ muW' = FALSE
    /\ hpc' = "select"
    /\ hcmd' = NoCmd
    /\ UNCHANGED <<closes, panics, crashed>>
    /\ UNCHANGED <<muR, htodo, sendq, connClosed, accepted, spc, rVars, wVars,
                   cbs, events, appVars, budget>>
    /\ UNCHANGED <<cliVars, emitVars, codecVars, faults>>

\* HubUnregister without the "ok" test: delete and close whatever arrives.
HubUnregisterUnchecked ==
    /\ ~crashed
    /\ hpc = "unregLocked"
    /\ clients' = clients \ {hcmd.c}
    /\ CloseQueue(hcmd.c)
    /\ IF IsClosed(hcmd.c)
       THEN /\ panics' = panics \cup {PanicClose}
            /\ crashed' = TRUE
            /\ UNCHANGED <<muW, hpc, hcmd>>
       ELSE /\ muW' = FALSE
            /\ hpc' = "select"
            /\ hcmd' = NoCmd
            /\ UNCHANGED <<panics, crashed>>
    /\ UNCHANGED <<muR, htodo, sendq, connClosed, accepted, spc, rVars, wVars,
                   cbs, events, appVars, budget>>
    /\ UNCHANGED <<cliVars, emitVars, codecVars, faults>>

\* if _, ok := h.clients[client.Id]; ok { delete; close(client.send) }
\* h.mu.Unlock()
HubUnregister ==
    /\ ~crashed
    /\ hpc = "unregLocked"
    /\ IF hcmd.c \in clients
       THEN /\ clients' = clients \ {hcmd.c}
            /\ CloseQueue(hcmd.c)
            /\ IF IsClosed(hcmd.c)
               THEN /\ panics' = panics \cup {PanicClose}
                    /\ crashed' = TRUE
                    /\ UNCHANGED <<muW, hpc, hcmd>>
               ELSE /\ muW' = FALSE
                    /\ hpc' = "select"
                    /\ hcmd' = NoCmd
                    /\ UNCHANGED <<panics, crashed>>
       ELSE /\ muW' = FALSE
            /\ hpc' = "select"
            /\ hcmd' = NoCmd
            /\ UNCHANGED <<clients, closes, panics, crashed>>
    /\ UNCHANGED <<muR, htodo, sendq, connClosed, accepted, spc, rVars, wVars,
                   cbs, events, appVars, budget>>
    /\ UNCHANGED <<cliVars, emitVars, codecVars, faults>>

\* HubOffer with an empty default branch: a full queue only loses the frame.
HubOfferKeep(c, m) ==
    CASE TrySend(c) = "ok" ->
           /\ Enqueue(c, m)
           /\ UNCHANGED <<clients, closes, panics, crashed>>
      [] TrySend(c) = "full" ->
           UNCHANGED <<clients, closes, panics, crashed, sendq, accepted>>
      [] TrySend(c) = "panic" ->
           /\ panics' = panics \cup {PanicSend}
           /\ crashed' = TRUE
           /\ UNCHANGED <<clients, closes, sendq, accepted>>

\* The non-blocking send of the broadcast and sendMsg cases to client c:
\*   select { case client.send <- m: default: close(client.send); delete }
\* The delete runs under the shared lock: a map read by another holder of
\* the shared lock that overlaps it is a data race, which the Go runtime
\* may or may not turn into a fatal error.
HubOffer(c, m) ==
    CASE TrySend(c) = "ok" ->
           /\ Enqueue(c, m)
           /\ UNCHANGED <<clients, closes, panics, crashed>>
      [] TrySend(c) = "full" ->
           /\ CloseQueue(c)
           /\ clients' = clients \ {c}
           /\ \/ UNCHANGED <<panics, crashed>>
              \/ /\ apc = "rlocked" /\ aarg.op \in {"get", "close"}
                 /\ panics' = panics \cup {FatalMap}
                 /\ crashed' = TRUE
           /\ UNCHANGED <<sendq, accepted>>
      [] TrySend(c) = "panic" ->
           /\ panics' = panics \cup {PanicSend}
           /\ crashed' = TRUE
           /\ UNCHANGED <<clients, closes, sendq, accepted>>

\* one iteration of "for _, client := range h.clients" in the broadcast case
HubBroadcastVisit(c) ==
    /\ ~crashed
    /\ hpc = "bcastLocked"
    /\ c \in htodo
    /\ HubOffer(c, hcmd.m)
    /\ htodo' = htodo \ {c}
    /\ UNCHANGED <<muW, muR, hpc, hcmd, connClosed, spc, rVars, wVars, cbs,
                   events, appVars, budget>>
    /\ UNCHANGED <<cliVars, emitVars, codecVars, faults>>

\* end of the range; h.mu.RUnlock()
HubBroadcastDone ==
    /\ ~crashed
    /\ hpc = "bcastLocked"
    /\ htodo = {}
    /\ muR' = muR \ {"hub"}
    /\ hpc' = "select"
    /\ hcmd' = NoCmd
    /\ UNCHANGED <<clients, muW, htodo, connVars, spc, rVars, wVars, cbs,
                   events, appVars, panics, crashed, budget>>
    /\ UNCHANGED <<cliVars, emitVars, codecVars, faults>>

\* HubSendMsg without the "ok" test: the send goes to whatever id arrives.
HubSendMsgUnchecked ==
    /\ ~crashed
    /\ hpc = "sendLocked"
    /\ HubOffer(hcmd.c, hcmd.m)
    /\ muR' = muR \ {"hub"}
    /\ hpc' = "select"
    /\ hcmd' = NoCmd
    /\ UNCHANGED <<muW, htodo, connClosed, spc, rVars, wVars, cbs, events,
                   appVars, budget>>
    /\ UNCHANGED <<cliVars, emitVars, codecVars, faults>>

\* if client, ok := h.clients[msg.ClientId]; ok { ... }; h.mu.RUnlock()
HubSendMsg ==
    /\ ~crashed
    /\ hpc = "sendLocked"
    /\ IF hcmd.c \in clients
       THEN HubOffer(hcmd.c, hcmd.m)
       ELSE UNCHANGED <<clients, sendq, closes, accepted, panics, crashed>>
    /\ muR' = muR \ {"hub"}
    /\ hpc' = "select"
    /\ hcmd' = NoCmd
    /\ UNCHANGED <<muW, htodo, connClosed, spc, rVars, wVars, cbs, events,
                   appVars, budget>>
    /\ UNCHANGED <<cliVars, emitVars, codecVars, faults>>

\* -------------------------------------------------------------- readPump
\* Client.Send with an empty default branch: a full queue only loses the
\* frame and the caller goes on.
ClientSendSilent(c, m, cont) ==
    CASE TrySend(c) = "ok" ->
           /\ Enqueue(c, m)
           /\ rpc' = [rpc EXCEPT ![c] = cont]
           /\ UNCHANGED <<rret, rpanic, panics>>
      [] TrySend(c) = "full" ->
           /\ rpc' = [rpc EXCEPT ![c] = cont]
           /\ UNCHANGED <<sendq, accepted, rret, rpanic, panics>>
      [] TrySend(c) = "panic" ->
           /\ panics' = panics \cup {PanicSend}
           /\ rpanic' = [rpanic EXCEPT ![c] = TRUE]
           /\ rpc' = [rpc EXCEPT ![c] = "teardown"]
           /\ UNCHANGED <<sendq, accepted, rret>>

\* Client.Send as a plain "c.send <- m": the caller waits for room.
ClientSendBlocking(c, m, cont) ==
    /\ TrySend(c) # "full"
    /\ CASE TrySend(c) = "ok" ->
             /\ Enqueue(c, m)
             /\ rpc' = [rpc EXCEPT ![c] = cont]
             /\ UNCHANGED <<rret, rpanic, panics>>
        [] TrySend(c) = "panic" ->
             /\ panics' = panics \cup {PanicSend}
             /\ rpanic' = [rpanic EXCEPT ![c] = TRUE]
             /\ rpc' = [rpc EXCEPT ![c] = "teardown"]
             /\ UNCHANGED <<sendq, accepted, rret>>

\* Client.Send called on the read pump's goroutine, which goes on at
\* position cont when the call returns.  On a full queue the call parks on
\* "c.hub.unregister <- c"; on a closed queue it panics and the deferred
\* teardown of readPump runs while the panic unwinds.
ClientSend(c, m, cont) ==
    CASE TrySend(c) = "ok" ->
           /\ Enqueue(c, m)
           /\ rpc' = [rpc EXCEPT ![c] = cont]
           /\ UNCHANGED <<rret, rpanic, panics>>
      [] TrySend(c) = "full" ->
           /\ rpc' = [rpc EXCEPT ![c] = "sendFull"]
           /\ rret' = [rret EXCEPT ![c] = cont]
           /\ UNCHANGED <<sendq, accepted, rpanic, panics>>
      [] TrySend(c) = "panic" ->
           /\ panics' = panics \cup {PanicSend}
           /\ rpanic' = [rpanic EXCEPT ![c] = TRUE]
           /\ rpc' = [rpc EXCEPT ![c] = "teardown"]
           /\ UNCHANGED <<sendq, accepted, rret>>

\* client.emit("close", ctx) after the events evs: the callbacks registered
\* now are run; with none registered the loop breaks at once and the
\* deferred function parks on "client.hub.unregister <- client"
EmitClose(c, evs) ==
    /\ events' = [events EXCEPT ![c] = Append(evs, [ev |-> "close", n |-> cbs[c]["close"]])]
    /\ rcb' = [rcb EXCEPT ![c] = cbs[c]["close"]]
    /\ rpc' = [rpc EXCEPT ![c] = IF cbs[c]["close"] > 0 THEN "cbClose" ELSE "teardown"]

\* A read pump that gives up on a frame NewWsData cannot decode.
ReadPumpMessageStrict(c, frame) ==
    /\ ~crashed
    /\ rpc[c] = "read"
    /\ ~connClosed[c]
    /\ budget > 0
    /\ budget' = budget - 1
    /\ rpc' = [rpc EXCEPT ![c] = IF Unmarshal(frame).err # "" THEN "teardown"
                                  ELSE "handler"]
    /\ rin' = [rin EXCEPT ![c] = budget]
    /\ rdata' = [rdata EXCEPT ![c] = NewWsData(frame)]
    /\ UNCHANGED <<hubVars, connVars, spc, rret, rcb, rerr, rpanic, wVars, cbs,
                   events, appVars, panics, crashed>>
    /\ UNCHANGED <<cliVars, emitVars, codecVars, faults>>

\* ReadMessage returned a frame: wsData := NewWsData(message) and the
\* handler is called with it
ReadPumpMessage(c, frame) ==
    /\ ~crashed
    /\ rpc[c] = "read"
    /\ ~connClosed[c]
    /\ budget > 0
    /\ budget' = budget - 1
    /\ rpc' = [rpc EXCEPT ![c] = "handler"]
    /\ rin' = [rin EXCEPT ![c] = budget]
    /\ rdata' = [rdata EXCEPT ![c] = NewWsData(frame)]
    /\ UNCHANGED <<hubVars, connVars, spc, rret, rcb, rerr, rpanic, wVars, cbs,
                   events, appVars, panics, crashed>>
    /\ UNCHANGED <<cliVars, emitVars, codecVars, faults>>

\* ReadMessage returned an error of kind k: client.emit("error", ctx) for
\* an unexpected close, then client.emit("close", ctx)
ReadPumpError(c, k) ==
    /\ ~crashed
    /\ rpc[c] = "read"
    /\ connClosed[c] => k = "net"
    /\ SocketFails(c)
    /\ rerr' = [rerr EXCEPT ![c] = TRUE]
    /\ IF IsUnexpectedCloseError(k)
       THEN LET evs == Append(events[c], [ev |-> "error", n |-> cbs[c]["error"]])
            IN  IF cbs[c]["error"] > 0
                THEN /\ events' = [events EXCEPT ![c] = evs]
                     /\ rcb' = [rcb EXCEPT ![c] = cbs[c]["error"]]
                     /\ rpc' = [rpc EXCEPT ![c] = "cbError"]
                ELSE EmitClose(c, evs)
       ELSE EmitClose(c, events[c])
    /\ UNCHANGED <<hubVars, connVars, spc, rret, rin, rdata, rpanic, wVars, cbs, appVars,
                   panics, crashed, budget>>
    /\ UNCHANGED <<cliVars, emitVars, codecVars>>

\* a lifecycle callback returns; after the last one of the error event the
\* close event follows, after the last one of the close event the break
CallbackReturn(c) ==
    /\ ~crashed
    /\ rpc[c] \in {"cbError", "cbClose"}
    /\ rcb[c] > 0
    /\ IF rcb[c] > 1
       THEN /\ rcb' = [rcb EXCEPT ![c] = @ - 1]
            /\ UNCHANGED <<rpc, events>>
       ELSE IF rpc[c] = "cbError"
            THEN EmitClose(c, events[c])
            ELSE /\ rcb' = [rcb EXCEPT ![c] = 0]
                 /\ rpc' = [rpc EXCEPT ![c] = "teardown"]
                 /\ UNCHANGED events
    /\ UNCHANGED <<hubVars, connVars, spc, rret, rin, rdata, rerr, rpanic, wVars, cbs,
                   appVars, panics, crashed, budget>>
    /\ UNCHANGED <<cliVars, emitVars, codecVars, faults>>

\* client.conn.Close() of the deferred function; an unwinding panic then
\* ends the process
ReadPumpFinish(c) ==
    /\ ~crashed
    /\ rpc[c] = "closing"
    /\ connClosed' = [connClosed EXCEPT ![c] = TRUE]
    /\ rpc' = [rpc EXCEPT ![c] = "done"]
    /\ crashed' = rpanic[c]
    /\ UNCHANGED <<hubVars, sendq, closes, accepted, spc, rret, rcb, rin, rdata, rerr,
                   rpanic, wVars, cbs, events, appVars, panics, budget>>
    /\ UNCHANGED <<cliVars, emitVars, codecVars, faults>>

\* Application code (the message handler or a lifecycle callback) is
\* running on the read pump of c.
InUser(c) ==
    \/ rpc[c] = "handler"
    \/ rpc[c] \in {"cbError", "cbClose"} /\ rcb[c] > 0

\* ctx.Send(m) inside the handler or a callback
UserSend(c, m) ==
    /\ ~crashed
    /\ InUser(c)
    /\ budget > 0
    /\ budget' = budget - 1
    /\ ClientSend(c, m, rpc[c])
    /\ UNCHANGED <<hubVars, closes, connClosed, spc, rcb, rin, rdata, rerr, wVars, cbs,
                   events, appVars, crashed>>
    /\ UNCHANGED <<cliVars, emitVars, codecVars, faults>>

\* ctx.Close() inside the handler or a callback parks on
\* "c.hub.unregister <- c"
UserClose(c) ==
    /\ ~crashed
    /\ InUser(c)
    /\ budget > 0
    /\ budget' = budget - 1
    /\ rpc' = [rpc EXCEPT ![c] = "closeWait"]
    /\ rret' = [rret EXCEPT ![c] = rpc[c]]
    /\ UNCHANGED <<hubVars, connVars, spc, rcb, rin, rdata, rerr, rpanic, wVars, cbs,
                   events, appVars, panics, crashed>>
    /\ UNCHANGED <<cliVars, emitVars, codecVars, faults>>

\* ctx.On(e, callback) inside the handler or a callback
UserOn(c, e) ==
    /\ ~crashed
    /\ InUser(c)
    /\ cbs[c][e] < MaxCbs
    /\ budget > 0
    /\ budget' = budget - 1
    /\ cbs' = [cbs EXCEPT ![c][e] = @ + 1]
    /\ UNCHANGED <<hubVars, connVars, spc, rVars, wVars, events, appVars,
                   panics, crashed>>
    /\ UNCHANGED <<cliVars, emitVars, codecVars, faults>>

\* reply := handler(ctx); if reply != nil { client.Send(reply) }
HandlerReturn(c, reply) ==
    /\ ~crashed
    /\ rpc[c] = "handler"
    /\ IF ~reply.nil
       THEN ClientSend(c, ReplyFrame(reply, rin[c]), "read")
       ELSE /\ rpc' = [rpc EXCEPT ![c] = "read"]
            /\ UNCHANGED <<sendq, accepted, rret, rpanic, panics>>
    /\ rin' = [rin EXCEPT ![c] = 0]
    /\ rdata' = [rdata EXCEPT ![c] = NilWsData]
    /\ UNCHANGED <<hubVars, closes, connClosed, spc, rcb, rerr, wVars, cbs,
                   events, appVars, crashed, budget>>
    /\ UNCHANGED <<cliVars, emitVars, codecVars, faults>>

\* The handler panics.  readPump has no recover: the panic unwinds the
\* worker, whose deferred function parks on "client.hub.unregister <-
\* client" and closes the socket, and then ends the process.
HandlerPanic(c) ==
    /\ ~crashed
    /\ rpc[c] = "handler"
    /\ panics' = panics \cup {PanicHandler}
    /\ rpanic' = [rpanic EXCEPT ![c] = TRUE]
    /\ rpc' = [rpc EXCEPT ![c] = "teardown"]
    /\ rin' = [rin EXCEPT ![c] = 0]
    /\ rdata' = [rdata EXCEPT ![c] = NilWsData]
    /\ UNCHANGED <<hubVars, connVars, spc, rret, rcb, rerr, wVars, cbs,
                   events, appVars, crashed, budget>>
    /\ UNCHANGED <<cliVars, emitVars, codecVars, faults>>

\* ------------------------------------------------------------- writePump
\* return: the deferred function stops the ticker and closes the socket
WritePumpExit(c) ==
    /\ connClosed' = [connClosed EXCEPT ![c] = TRUE]
    /\ wpc' = [wpc EXCEPT ![c] = "done"]
    /\ wframe' = [wframe EXCEPT ![c] = <<>>]

\* A receive that reports a closed queue at once, whatever is buffered in it.
WritePumpRecvCloseFirst(c, netok) ==
    /\ ~crashed
    /\ wpc[c] = "select"
    /\ \/ /\ sendq[c] # <<>>
          /\ ~IsClosed(c)
          /\ sendq' = [sendq EXCEPT ![c] = Tail(@)]
          /\ IF netok /\ ~connClosed[c]
             THEN /\ wframe' = [wframe EXCEPT ![c] = <<Head(sendq[c])>>]
                  /\ wpc' = [wpc EXCEPT ![c] = "frame"]
                  /\ UNCHANGED <<connClosed, faults>>
             ELSE /\ SocketFails(c)
                  /\ WritePumpExit(c)
          /\ UNCHANGED sock
       \/ /\ IsClosed(c)
          /\ IF netok /\ ~connClosed[c]
             THEN /\ sock' = [sock EXCEPT ![c] = Append(@, [t |-> "close", msgs |-> <<>>])]
                  /\ UNCHANGED faults
             ELSE /\ SocketFails(c)
                  /\ UNCHANGED sock
          /\ WritePumpExit(c)
          /\ UNCHANGED sendq
    /\ UNCHANGED <<hubVars, closes, accepted, spc, rVars, cbs, events, appVars,
                   panics, crashed, budget>>
    /\ UNCHANGED <<cliVars, emitVars, codecVars>>

\* case message, ok := <-client.send, then NextWriter and w.Write(message);
\* at the end of a closed queue the close frame and return
WritePumpRecv(c, netok) ==
    /\ ~crashed
    /\ wpc[c] = "select"
    /\ \/ /\ sendq[c] # <<>>
          /\ sendq' = [sendq EXCEPT ![c] = Tail(@)]
          /\ IF netok /\ ~connClosed[c]
             THEN /\ wframe' = [wframe EXCEPT ![c] = <<Head(sendq[c])>>]
                  /\ wpc' = [wpc EXCEPT ![c] = "frame"]
                  /\ UNCHANGED <<connClosed, faults>>
             ELSE /\ SocketFails(c)
                  /\ WritePumpExit(c)
          /\ UNCHANGED sock
       \/ /\ sendq[c] = <<>>
          /\ IsClosed(c)
          /\ IF netok /\ ~connClosed[c]
             THEN /\ sock' = [sock EXCEPT ![c] = Append(@, [t |-> "close", msgs |-> <<>>])]
                  /\ UNCHANGED faults
             ELSE /\ SocketFails(c)
                  /\ UNCHANGED sock
          /\ WritePumpExit(c)
          /\ UNCHANGED sendq
    /\ UNCHANGED <<hubVars, closes, accepted, spc, rVars, cbs, events, appVars,
                   panics, crashed, budget>>
    /\ UNCHANGED <<cliVars, emitVars, codecVars>>

\* The content of a frame that starts with the messages in first when the
\* n messages at the head of queue q are added to it.
BatchAhead(first, q, n) == SubSeq(q, 1, n) \o first

\* n := len(client.send); n times w.Write('\n'); w.Write(<-client.send)
Batch(first, q, n) == first \o SubSeq(q, 1, n)

\* The rest of the case: n := len(client.send), the n queued messages are
\* added to the frame and w.Close() sends it.  Sends that arrive while the
\* loop runs are appended behind the n messages it takes.
WritePumpBatch(c, netok) ==
    /\ ~crashed
    /\ wpc[c] = "frame"
    /\ LET n == Len(sendq[c])
       IN  /\ sendq' = [sendq EXCEPT ![c] = SubSeq(@, n + 1, Len(@))]
           /\ IF netok /\ ~connClosed[c]
              THEN /\ sock' = [sock EXCEPT ![c] =
                          Append(@, [t |-> "text", msgs |-> Batch(wframe[c], sendq[c], n)])]
                   /\ wframe' = [wframe EXCEPT ![c] = <<>>]
                   /\ wpc' = [wpc EXCEPT ![c] = "select"]
                   /\ UNCHANGED <<connClosed, faults>>
              ELSE /\ SocketFails(c)
                   /\ WritePumpExit(c)
                   /\ UNCHANGED sock
    /\ UNCHANGED <<hubVars, closes, accepted, spc, rVars, cbs, events, appVars,
                   panics, crashed, budget>>
    /\ UNCHANGED <<cliVars, emitVars, codecVars>>

\* case <-ticker.C: a ping that cannot be written ends the pump; a ping
\* that is written changes nothing here
WritePumpPing(c) ==
    /\ ~crashed
    /\ wpc[c] = "select"
    /\ SocketFails(c)
    /\ WritePumpExit(c)
    /\ UNCHANGED <<hubVars, sendq, closes, accepted, spc, rVars, sock, cbs,
                   events, appVars, panics, crashed, budget>>
    /\ UNCHANGED <<cliVars, emitVars, codecVars>>

\* ------------------------------------- application worker (Hub API calls)
\* WsHub.Send parks on "h.sendMsg <- ..."
AppSend(id, m) ==
    /\ ~crashed
    /\ apc = "idle"
    /\ budget > 0
    /\ budget' = budget - 1
    /\ apc' = "sendWait"
    /\ aarg' = [op |-> "send", id |-> id, m |-> m]
    /\ UNCHANGED <<hubVars, connVars, spc, rVars, wVars, cbs, events, panics,
                   crashed>>
    /\ UNCHANGED <<cliVars, emitVars, codecVars, faults>>

\* WsHub.Broadcast parks on "h.broadcast <- ..."
AppBroadcast(m) ==
    /\ ~crashed
    /\ apc = "idle"
    /\ budget > 0
    /\ budget' = budget - 1
    /\ apc' = "bcastWait"
    /\ aarg' = [op |-> "broadcast", id |-> 0, m |-> m]
    /\ UNCHANGED <<hubVars, connVars, spc, rVars, wVars, cbs, events, panics,
                   crashed>>
    /\ UNCHANGED <<cliVars, emitVars, codecVars, faults>>

\* h.mu.RLock() of WsHub.Close(id), WsHub.Count() and WsHub.GetClient(id).
\* The value Count and GetClient return is not used by any later step, so
\* the identity looked up by GetClient is not kept.
AppRLock(op, id) ==
    /\ ~crashed
    /\ apc = "idle"
    /\ ~muW
    /\ budget > 0
    /\ budget' = budget - 1
    /\ muR' = muR \cup {"app"}
    /\ apc' = "rlocked"
    /\ aarg' = [op |-> op, id |-> IF op = "close" THEN id ELSE 0, m |-> Nil]
    /\ UNCHANGED <<clients, muW, hpc, hcmd, htodo, connVars, spc, rVars, wVars,
                   cbs, events, panics, crashed>>
    /\ UNCHANGED <<cliVars, emitVars, codecVars, faults>>

\* WsHub.Close deleting the entry itself instead of handing the client to
\* the loop.
AppRUnlockDeleting ==
    /\ ~crashed
    /\ apc = "rlocked"
    /\ muR' = muR \ {"app"}
    /\ clients' = IF aarg.op = "close" THEN clients \ {aarg.id} ELSE clients
    /\ apc' = "idle"
    /\ aarg' = NoArg
    /\ UNCHANGED <<muW, hpc, hcmd, htodo, connVars, spc, rVars, wVars,
                   cbs, events, panics, crashed, budget>>
    /\ UNCHANGED <<cliVars, emitVars, codecVars, faults>>

\* the map read and h.mu.RUnlock(); WsHub.Close then parks on
\* "h.unregister <- client" when it found the client
AppRUnlock ==
    /\ ~crashed
    /\ apc = "rlocked"
    /\ muR' = muR \ {"app"}
    /\ IF aarg.op = "close" /\ aarg.id \in clients
       THEN /\ apc' = "closeWait"
            /\ UNCHANGED aarg
       ELSE /\ apc' = "idle"
            /\ aarg' = NoArg
    /\ UNCHANGED <<clients, muW, hpc, hcmd, htodo, connVars, spc, rVars, wVars,
                   cbs, events, panics, crashed, budget>>
    /\ UNCHANGED <<cliVars, emitVars, codecVars, faults>>

\* ------------------------------------------------ WsClient (wsclient.go)
\* The outcome on a channel that takes frames beyond its capacity.
CliTrySendNoFull == IF chanCloses > 0 THEN "panic" ELSE "ok"

\* Outcome of "select { case c.sendChan <- message: default: }".
CliTrySend ==
    IF chanCloses > 0 THEN "panic"
    ELSE IF Len(sendChan) < CliQueueCap THEN "ok"
    ELSE "full"

\* The select of WsClient.Send with frame m: enqueue, drop on a full queue,
\* panic on a closed one (no caller of Send recovers, so the process dies).
CliOffer(m) ==
    CASE CliTrySend = "ok" ->
           /\ sendChan' = Append(sendChan, m)
           /\ queued' = Append(queued, m)
           /\ UNCHANGED <<panics, crashed>>
      [] CliTrySend = "full" ->
           UNCHANGED <<sendChan, queued, panics, crashed>>
      [] CliTrySend = "panic" ->
           /\ panics' = panics \cup {PanicSend}
           /\ crashed' = TRUE
           /\ UNCHANGED <<sendChan, queued>>

\* go client.Connect(ctx): the ticker is created and the loop entered
WsConnectStart ==
    /\ ~crashed
    /\ kpc = "new"
    /\ kpc' = "tick"
    /\ UNCHANGED <<conn, isConnected, isRunning, attemptCount, sendChan, chanCloses,
                   lrpc, lin, lwpc, upc, uarg, wire, queued, cevents, cbudget>>
    /\ UNCHANGED <<serverVars, emitVars, codecVars, ctxDone, panics, crashed>>

\* The owner of the context passed to Connect cancels it.
CtxCancel ==
    /\ ~crashed
    /\ kpc # "none"
    /\ ~ctxDone
    /\ ctxDone' = TRUE
    /\ UNCHANGED <<kpc, conn, isConnected, isRunning, attemptCount, sendChan,
                   chanCloses, lrpc, lin, lwpc, upc, uarg, wire, queued, cevents,
                   cbudget>>
    /\ UNCHANGED <<serverVars, emitVars, codecVars, panics, crashed>>

\* A cancellation that is noticed while run() is still waiting for the loops.
WsConnectCancelInRun ==
    /\ ~crashed
    /\ kpc \in {"tick", "run"}
    /\ ctxDone
    /\ cevents' = Append(cevents, "close")
    /\ kpc' = "returned"
    /\ UNCHANGED <<conn, isConnected, isRunning, attemptCount, sendChan, chanCloses,
                   lrpc, lin, lwpc, upc, uarg, wire, queued, cbudget>>
    /\ UNCHANGED <<serverVars, emitVars, codecVars, ctxDone, panics, crashed>>

\* case <-ctx.Done(): c.handleClose(); return
WsConnectCancel ==
    /\ ~crashed
    /\ kpc = "tick"
    /\ ctxDone
    /\ cevents' = Append(cevents, "close")
    /\ kpc' = "returned"
    /\ UNCHANGED <<conn, isConnected, isRunning, attemptCount, sendChan, chanCloses,
                   lrpc, lin, lwpc, upc, uarg, wire, queued, cbudget>>
    /\ UNCHANGED <<serverVars, emitVars, codecVars, ctxDone, panics, crashed>>

\* A tick case that also gives up after two failed dials in a row.
WsConnectTickGivingUp ==
    /\ ~crashed
    /\ kpc = "tick"
    /\ IF isRunning # 1 \/ attemptCount >= 2
       THEN /\ cevents' = Append(cevents, "close")
            /\ kpc' = "returned"
       ELSE IF isConnected = 1
       THEN UNCHANGED <<cevents, kpc>>
       ELSE /\ kpc' = "dial"
            /\ UNCHANGED cevents
    /\ UNCHANGED <<conn, isConnected, isRunning, attemptCount, sendChan, chanCloses,
                   lrpc, lin, lwpc, upc, uarg, wire, queued, cbudget>>
    /\ UNCHANGED <<serverVars, emitVars, codecVars, ctxDone, panics, crashed>>

\* case <-ticker.C: the loads of isRunning and of isConnected
WsConnectTick ==
    /\ ~crashed
    /\ kpc = "tick"
    /\ IF isRunning # 1
       THEN /\ cevents' = Append(cevents, "close")
            /\ kpc' = "returned"
       ELSE IF isConnected = 1
       THEN UNCHANGED <<cevents, kpc>>
       ELSE /\ kpc' = "dial"
            /\ UNCHANGED cevents
    /\ UNCHANGED <<conn, isConnected, isRunning, attemptCount, sendChan, chanCloses,
                   lrpc, lin, lwpc, upc, uarg, wire, queued, cbudget>>
    /\ UNCHANGED <<serverVars, emitVars, codecVars, ctxDone, panics, crashed>>

\* The events the handler has seen once handleReconnecting was called
\* on every attempt.
ReconnectingAlways(evs, attempts) == Append(evs, "reconnecting")

\* if attemptCount == 0 { c.handleReconnecting() }
Reconnecting(evs, attempts) ==
    IF attempts = 0 THEN Append(evs, "reconnecting") ELSE evs

\* The rest of the tick case: handleReconnecting on the first attempt of a
\* streak, then c.dial().  On success: attemptCount = 0, handleOpen and
\* run(), which starts both loops; on failure: attemptCount++ and the
\* sleep.
WsDial(ok) ==
    /\ ~crashed
    /\ kpc = "dial"
    /\ cbudget > 0
    /\ cbudget' = cbudget - 1
    /\ IF ok
       THEN /\ conn' = "open"
            /\ isConnected' = 1
            /\ attemptCount' = 0
            /\ cevents' = Append(Reconnecting(cevents, attemptCount), "open")
            /\ kpc' = "run"
            /\ lrpc' = "read"
            /\ lwpc' = "select"
       ELSE /\ attemptCount' = attemptCount + 1
            /\ cevents' = Reconnecting(cevents, attemptCount)
            /\ kpc' = "sleep"
            /\ UNCHANGED <<conn, isConnected, lrpc, lwpc>>
    /\ UNCHANGED <<isRunning, sendChan, chanCloses, lin, upc, uarg, wire, queued>>
    /\ UNCHANGED <<serverVars, emitVars, codecVars, ctxDone, panics, crashed>>

\* time.Sleep(c.options.ReconnectInterval); continue: back to the select,
\* which notices a cancellation or a Close only now.
WsConnectSleep ==
    /\ ~crashed
    /\ kpc = "sleep"
    /\ kpc' = "tick"
    /\ UNCHANGED <<conn, isConnected, isRunning, attemptCount, sendChan, chanCloses,
                   lrpc, lin, lwpc, upc, uarg, wire, queued, cevents, cbudget>>
    /\ UNCHANGED <<serverVars, emitVars, codecVars, ctxDone, panics, crashed>>

\* A run() after whose return Connect sleeps the reconnect interval before
\* it dials again.
WsRunReturnSleeping ==
    /\ ~crashed
    /\ kpc = "run"
    /\ lrpc = "done"
    /\ lwpc = "done"
    /\ isConnected' = 0
    /\ kpc' = "sleep"
    /\ lrpc' = "off"
    /\ lwpc' = "off"
    /\ UNCHANGED <<conn, isRunning, attemptCount, sendChan, chanCloses, lin, upc,
                   uarg, wire, queued, cevents, cbudget>>
    /\ UNCHANGED <<serverVars, emitVars, codecVars, ctxDone, panics, crashed>>

\* A run() that waits for the first of the two loops only.
WsRunReturnEarly ==
    /\ ~crashed
    /\ kpc = "run"
    /\ lrpc = "done" \/ lwpc = "done"
    /\ isConnected' = 0
    /\ kpc' = "tick"
    /\ lrpc' = IF lrpc = "done" THEN "off" ELSE lrpc
    /\ lwpc' = IF lwpc = "done" THEN "off" ELSE lwpc
    /\ UNCHANGED <<conn, isRunning, attemptCount, sendChan, chanCloses, lin, upc,
                   uarg, wire, queued, cevents, cbudget>>
    /\ UNCHANGED <<serverVars, emitVars, codecVars, ctxDone, panics, crashed>>

\* wg.Wait() returns: atomic.StoreInt32(&c.isConnected, 0) and the next tick
WsRunReturn ==
    /\ ~crashed
    /\ kpc = "run"
    /\ lrpc = "done"
    /\ lwpc = "done"
    /\ isConnected' = 0
    /\ kpc' = "tick"
    /\ lrpc' = "off"
    /\ lwpc' = "off"
    /\ UNCHANGED <<conn, isRunning, attemptCount, sendChan, chanCloses, lin, upc,
                   uarg, wire, queued, cevents, cbudget>>
    /\ UNCHANGED <<serverVars, emitVars, codecVars, ctxDone, panics, crashed>>

\* A deferred function that leaves isConnected and the socket alone.
LoopDeferredLeak ==
    /\ isConnected' = isConnected
    /\ conn' = conn

\* the deferred function of readLoop and of writeLoop
LoopDeferred ==
    /\ isConnected' = 0
    /\ conn' = IF conn = "nil" THEN "nil" ELSE "closed"

\* ReadMessage returned a frame: the handler is called
WsReadLoopMessage ==
    /\ ~crashed
    /\ lrpc = "read"
    /\ isConnected = 1
    /\ conn = "open"
    /\ cbudget > 0
    /\ cbudget' = cbudget - 1
    /\ lrpc' = "handler"
    /\ lin' = cbudget
    /\ UNCHANGED <<kpc, conn, isConnected, isRunning, attemptCount, sendChan,
                   chanCloses, lwpc, upc, uarg, wire, queued, cevents>>
    /\ UNCHANGED <<serverVars, emitVars, codecVars, ctxDone, panics, crashed>>

\* ReadMessage returned an error of kind k: handleError for an unexpected
\* close, return
WsReadLoopError(k) ==
    /\ ~crashed
    /\ lrpc = "read"
    /\ isConnected = 1
    /\ conn # "open" => k = "net"
    /\ cevents' = IF IsUnexpectedCloseError(k) THEN Append(cevents, "error")
                  ELSE cevents
    /\ LoopDeferred
    /\ lrpc' = "done"
    /\ UNCHANGED <<kpc, isRunning, attemptCount, sendChan, chanCloses, lin, lwpc,
                   upc, uarg, wire, queued, cbudget>>
    /\ UNCHANGED <<serverVars, emitVars, codecVars, ctxDone, panics, crashed>>

\* "for atomic.LoadInt32(&c.isConnected) == 1" ends the loop
WsReadLoopExit ==
    /\ ~crashed
    /\ lrpc = "read"
    /\ isConnected = 0
    /\ LoopDeferred
    /\ lrpc' = "done"
    /\ UNCHANGED <<kpc, isRunning, attemptCount, sendChan, chanCloses, lin, lwpc,
                   upc, uarg, wire, queued, cevents, cbudget>>
    /\ UNCHANGED <<serverVars, emitVars, codecVars, ctxDone, panics, crashed>>

\* reply := c.options.Handler(ctx); if reply != nil { c.Send(reply) }, up
\* to the load of isRunning in Send
WsReadLoopHandlerReturn(reply) ==
    /\ ~crashed
    /\ lrpc = "handler"
    /\ IF ~reply.nil /\ isRunning = 1
       THEN /\ lrpc' = "sending"
            /\ lin' = ReplyFrame(reply, lin)
       ELSE /\ lrpc' = "read"
            /\ lin' = 0
    /\ UNCHANGED <<kpc, conn, isConnected, isRunning, attemptCount, sendChan,
                   chanCloses, lwpc, upc, uarg, wire, queued, cevents, cbudget>>
    /\ UNCHANGED <<serverVars, emitVars, codecVars, ctxDone, panics, crashed>>

\* The handler panics.  readLoop has no recover either: its deferred
\* function clears isConnected and closes the socket, and the process ends.
WsReadLoopHandlerPanic ==
    /\ ~crashed
    /\ lrpc = "handler"
    /\ panics' = panics \cup {PanicHandler}
    /\ crashed' = TRUE
    /\ LoopDeferred
    /\ lrpc' = "done"
    /\ lin' = 0
    /\ UNCHANGED <<kpc, isRunning, attemptCount, sendChan, chanCloses, lwpc,
                   upc, uarg, wire, queued, cevents, cbudget>>
    /\ UNCHANGED <<serverVars, emitVars, codecVars, ctxDone>>

\* the select of the Send of the reply
WsReadLoopSend ==
    /\ ~crashed
    /\ lrpc = "sending"
    /\ CliOffer(lin)
    /\ lrpc' = "read"
    /\ lin' = 0
    /\ UNCHANGED <<kpc, conn, isConnected, isRunning, attemptCount, chanCloses,
                   lwpc, upc, uarg, wire, cevents, cbudget>>
    /\ UNCHANGED <<serverVars, emitVars, codecVars, ctxDone>>

\* case message, ok := <-c.sendChan: one WriteMessage per frame; a write
\* that fails and the end of the closed queue end the loop
WsWriteLoopRecv(netok) ==
    /\ ~crashed
    /\ lwpc = "select"
    /\ \/ /\ sendChan # <<>>
          /\ sendChan' = Tail(sendChan)
          /\ IF netok /\ conn = "open"
             THEN /\ wire' = Append(wire, [t |-> "text", m |-> Head(sendChan)])
                  /\ UNCHANGED <<conn, isConnected, lwpc>>
             ELSE /\ LoopDeferred
                  /\ lwpc' = "done"
                  /\ UNCHANGED wire
       \/ /\ sendChan = <<>>
          /\ chanCloses > 0
          /\ wire' = IF netok /\ conn = "open"
                     THEN Append(wire, [t |-> "close", m |-> Nil])
                     ELSE wire
          /\ LoopDeferred
          /\ lwpc' = "done"
          /\ UNCHANGED sendChan
    /\ UNCHANGED <<kpc, isRunning, attemptCount, chanCloses, lrpc, lin, upc, uarg,
                   queued, cevents, cbudget>>
    /\ UNCHANGED <<serverVars, emitVars, codecVars, ctxDone, panics, crashed>>

\* case <-ticker.C: a ping that cannot be written ends the loop; a ping
\* that is written changes nothing here
WsWriteLoopPing ==
    /\ ~crashed
    /\ lwpc = "select"
    /\ LoopDeferred
    /\ lwpc' = "done"
    /\ UNCHANGED <<kpc, isRunning, attemptCount, sendChan, chanCloses, lrpc, lin,
                   upc, uarg, wire, queued, cevents, cbudget>>
    /\ UNCHANGED <<serverVars, emitVars, codecVars, ctxDone, panics, crashed>>

\* "for atomic.LoadInt32(&c.isConnected) == 1" ends the loop
WsWriteLoopExit ==
    /\ ~crashed
    /\ lwpc = "select"
    /\ isConnected = 0
    /\ LoopDeferred
    /\ lwpc' = "done"
    /\ UNCHANGED <<kpc, isRunning, attemptCount, sendChan, chanCloses, lrpc, lin,
                   upc, uarg, wire, queued, cevents, cbudget>>
    /\ UNCHANGED <<serverVars, emitVars, codecVars, ctxDone, panics, crashed>>

\* WsClient.Send(m) up to "if atomic.LoadInt32(&c.isRunning) == 1"
WsClientSend(m) ==
    /\ ~crashed
    /\ kpc # "none"
    /\ upc = "idle"
    /\ cbudget > 0
    /\ cbudget' = cbudget - 1
    /\ IF isRunning = 1
       THEN /\ upc' = "sending"
            /\ uarg' = m
       ELSE UNCHANGED <<upc, uarg>>
    /\ UNCHANGED <<kpc, conn, isConnected, isRunning, attemptCount, sendChan,
                   chanCloses, lrpc, lin, lwpc, wire, queued, cevents>>
    /\ UNCHANGED <<serverVars, emitVars, codecVars, ctxDone, panics, crashed>>

\* the select of WsClient.Send
WsClientSendSelect ==
    /\ ~crashed
    /\ upc = "sending"
    /\ CliOffer(uarg)
    /\ upc' = "idle"
    /\ uarg' = Nil
    /\ UNCHANGED <<kpc, conn, isConnected, isRunning, attemptCount, chanCloses,
                   lrpc, lin, lwpc, wire, cevents, cbudget>>
    /\ UNCHANGED <<serverVars, emitVars, codecVars, ctxDone>>

\* WsClient.Close(): atomic.StoreInt32(&c.isRunning, 0)
WsClientClose ==
    /\ ~crashed
    /\ kpc # "none"
    /\ upc = "idle"
    /\ cbudget > 0
    /\ cbudget' = cbudget - 1
    /\ isRunning' = 0
    /\ upc' = "closing"
    /\ UNCHANGED <<kpc, conn, isConnected, attemptCount, sendChan, chanCloses,
                   lrpc, lin, lwpc, uarg, wire, queued, cevents>>
    /\ UNCHANGED <<serverVars, emitVars, codecVars, ctxDone, panics, crashed>>

\* the rest of WsClient.Close(): under c.mu the close frame and conn.Close()
\* when there is a connection, then close(c.sendChan)
WsClientCloseFinish ==
    /\ ~crashed
    /\ upc = "closing"
    /\ wire' = IF conn = "open" THEN Append(wire, [t |-> "close", m |-> Nil]) ELSE wire
    /\ conn' = IF conn = "nil" THEN "nil" ELSE "closed"
    /\ chanCloses' = chanCloses + 1
    /\ IF chanCloses > 0
       THEN /\ panics' = panics \cup {PanicClose}
            /\ crashed' = TRUE
       ELSE UNCHANGED <<panics, crashed>>
    /\ upc' = "idle"
    /\ UNCHANGED <<kpc, isConnected, isRunning, attemptCount, sendChan, lrpc, lin,
                   lwpc, uarg, queued, cevents, cbudget>>
    /\ UNCHANGED <<serverVars, emitVars, codecVars, ctxDone>>

\* ------------------------------------------- Client.On and Client.emit
\* Client.On(event, h), called by any worker that holds the Client, a
\* callback of the running emit included: under c.mu,
\* c.events[event] = append(c.events[event], h)
ClientOn(h) ==
    /\ epc # "off"
    /\ Len(registered) < MaxRegs
    /\ registered' = Append(registered, h)
    /\ UNCHANGED <<epc, handlers, hidx, invoked, ebudget>>
    /\ UNCHANGED <<serverVars, cliVars, codecVars, panics, crashed>>

\* A range loop that reads c.events[event] anew at every iteration.
RangeOverCurrent(snapshot, current) == current

\* "for _, handler := range handlers" ranges over the slice value taken
\* under the read lock, whatever is appended to c.events[event] later.
RangeOver(snapshot, current) == snapshot

\* emit: c.mu.RLock(); handlers := c.events[event]; c.mu.RUnlock()
EmitSnapshot ==
    /\ epc = "idle"
    /\ ebudget > 0
    /\ ebudget' = ebudget - 1
    /\ handlers' = registered
    /\ hidx' = 1
    /\ invoked' = <<>>
    /\ epc' = "loop"
    /\ UNCHANGED registered
    /\ UNCHANGED <<serverVars, cliVars, codecVars, panics, crashed>>

\* one iteration of the range loop: handler(ctx)
EmitCall ==
    /\ epc = "loop"
    /\ hidx <= Len(RangeOver(handlers, registered))
    /\ invoked' = Append(invoked, RangeOver(handlers, registered)[hidx])
    /\ hidx' = hidx + 1
    /\ UNCHANGED <<epc, registered, handlers, ebudget>>
    /\ UNCHANGED <<serverVars, cliVars, codecVars, panics, crashed>>

\* the range loop is over and emit returns
EmitReturn ==
    /\ epc = "loop"
    /\ hidx > Len(RangeOver(handlers, registered))
    /\ epc' = "idle"
    /\ UNCHANGED <<registered, handlers, hidx, invoked, ebudget>>
    /\ UNCHANGED <<serverVars, cliVars, codecVars, panics, crashed>>

\* ------------------------------------------------------------------ Next
\* the workers of a server process
ServerNext ==
    \/ RouterWs
    \/ \E c \in Conns : ServeWsPark(c)
    \/ \E c \in Conns : ServeWsOpen(c)
    \/ \E c \in Conns : HubRecvRegister(c)
    \/ \E c \in Conns : HubRecvUnregisterPump(c)
    \/ HubRecvUnregisterApp
    \/ HubRecvSend
    \/ HubRecvBroadcast
    \/ HubLock
    \/ HubRegister
    \/ HubUnregister
    \/ \E c \in Conns : HubBroadcastVisit(c)
    \/ HubBroadcastDone
    \/ HubSendMsg
    \/ \E c \in Conns, frame \in InboundFrames : ReadPumpMessage(c, frame)
    \/ \E c \in Conns, k \in ErrKinds : ReadPumpError(c, k)
    \/ \E c \in Conns : CallbackReturn(c)
    \/ \E c \in Conns : ReadPumpFinish(c)
    \/ \E c \in Conns : UserSend(c, budget)
    \/ \E c \in Conns : UserClose(c)
    \/ \E c \in Conns, e \in Events : UserOn(c, e)
    \/ \E c \in Conns, reply \in Replies : HandlerReturn(c, reply)
    \/ \E c \in Conns : HandlerPanic(c)
    \/ \E c \in Conns, netok \in BOOLEAN : WritePumpRecv(c, netok)
    \/ \E c \in Conns, netok \in BOOLEAN : WritePumpBatch(c, netok)
    \/ \E c \in Conns : WritePumpPing(c)
    \/ \E id \in Conns : AppSend(id, budget)
    \/ AppBroadcast(budget)
    \/ \E op \in {"close", "count", "get"}, id \in Conns : AppRLock(op, id)
    \/ AppRUnlock

\* the workers of a WsClient, its callers and the owner of its context
WsClientNext ==
    \/ WsConnectStart
    \/ CtxCancel
    \/ WsConnectCancel
    \/ WsConnectTick
    \/ \E ok \in BOOLEAN : WsDial(ok)
    \/ WsConnectSleep
    \/ WsRunReturn
    \/ WsReadLoopMessage
    \/ \E k \in ErrKinds : WsReadLoopError(k)
    \/ WsReadLoopExit
    \/ \E reply \in Replies : WsReadLoopHandlerReturn(reply)
    \/ WsReadLoopHandlerPanic
    \/ WsReadLoopSend
    \/ \E netok \in BOOLEAN : WsWriteLoopRecv(netok)
    \/ WsWriteLoopPing
    \/ WsWriteLoopExit
    \/ WsClientSend(cbudget)
    \/ WsClientSendSelect
    \/ WsClientClose
    \/ WsClientCloseFinish

\* Client.emit and the callers of Client.On
EmitNext ==
    \/ \E h \in Callbacks : ClientOn(h)
    \/ EmitSnapshot
    \/ EmitCall
    \/ EmitReturn

\* ------------------------------------------------------ WsData and JSON
\* message = v.ToJSON()
WsDataToJSON ==
    /\ jpc = "data"
    /\ message' = ToJSON(wsData)
    /\ jpc' = "json"
    /\ UNCHANGED <<wsData, parsed>>
    /\ UNCHANGED <<serverVars, cliVars, emitVars, panics, crashed>>

\* wsData := NewWsData(message), on the text ToJSON wrote or on a frame
\* read from the socket
CallNewWsData ==
    /\ jpc \in {"json", "frame"}
    /\ parsed' = NewWsData(message)
    /\ jpc' = IF jpc = "json" THEN "back" ELSE "parsed"
    /\ UNCHANGED <<wsData, message>>
    /\ UNCHANGED <<serverVars, cliVars, emitVars, panics, crashed>>

\* w.Has(key): _, ok := w[key]; a nil map has no key
WsDataHas(w, key) == key \in DOMAIN w.kv

\* w.Get(key): w[key], nil for a key the map does not hold
WsDataGet(w, key) == IF key \in DOMAIN w.kv THEN w.kv[key] ELSE GoNil

\* the values the application sets
SetValues == {GoString("a"), GoBool(TRUE)}

\* w.Set(key, value) on the WsData NewWsData returned: w[key] = value, which
\* panics when w is a nil map
CallSet(key, value) ==
    /\ ~crashed
    /\ jpc \in {"back", "parsed"}
    /\ jpc' = "set"
    /\ IF parsed.nil
       THEN /\ panics' = panics \cup {PanicNilMap}
            /\ crashed' = TRUE
            /\ UNCHANGED parsed
       ELSE /\ parsed' = MakeWsData(Put(parsed.kv, key, value))
            /\ UNCHANGED <<panics, crashed>>
    /\ UNCHANGED <<wsData, message>>
    /\ UNCHANGED <<serverVars, cliVars, emitVars>>

CodecNext ==
    \/ WsDataToJSON
    \/ CallNewWsData
    \/ \E key \in Keys, value \in SetValues : CallSet(key, value)

Next == ServerNext \/ WsClientNext \/ EmitNext \/ CodecNext

\* The conversions alone.
CodecSpec == InitCodec /\ [][CodecNext]_vars

Spec == Init /\ [][Next]_vars

\* ------------------------------------------------------------- fairness
\* What the Go scheduler and the runtime guarantee of the server workers:
\* a worker that can take its next step takes it, a worker parked on the
\* unregister channel is received from by the Hub loop, whose select
\* chooses among the ready cases at random, a read on a socket closed on
\* this side fails, and application code that was called returns.  New
\* connections, inbound frames, failures of an open socket, ticks and the
\* calls the application chooses to make are not promised.
HubLoopStep ==
    \/ HubLock
    \/ HubRegister
    \/ HubUnregister
    \/ \E c \in Conns : HubBroadcastVisit(c)
    \/ HubBroadcastDone
    \/ HubSendMsg

ReadPumpStep(c) ==
    \/ CallbackReturn(c)
    \/ ReadPumpFinish(c)
    \/ \E reply \in Replies : HandlerReturn(c, reply)
    \/ connClosed[c] /\ ReadPumpError(c, "net")

WritePumpStep(c) ==
    \E netok \in BOOLEAN : WritePumpRecv(c, netok) \/ WritePumpBatch(c, netok)

ServerFairness ==
    /\ WF_vars(HubLoopStep)
    /\ WF_vars(AppRUnlock)
    /\ SF_vars(HubRecvUnregisterApp \/ HubRecvSend \/ HubRecvBroadcast)
    /\ \A c \in Conns :
          /\ WF_vars(ServeWsOpen(c))
          /\ SF_vars(HubRecvUnregisterPump(c))
          /\ WF_vars(ReadPumpStep(c))
          /\ WF_vars(WritePumpStep(c))

\* The same of the workers of a WsClient: the ticker of Connect fires, a
\* cancelled context is noticed by the select of Connect, dial() returns,
\* wg.Wait() returns once both loops have, a loop whose socket was closed
\* on this side or whose isConnected was cleared returns (the read fails,
\* the ping ticker wakes the write loop), the handler returns, and a call
\* of Send or Close that has started goes on.
ReadLoopStep ==
    \/ WsReadLoopExit
    \/ \E reply \in Replies : WsReadLoopHandlerReturn(reply)
    \/ WsReadLoopSend
    \/ conn # "open" /\ WsReadLoopError("net")

WriteLoopStep ==
    \/ WsWriteLoopExit
    \/ \E netok \in BOOLEAN : WsWriteLoopRecv(netok)

ClientFairness ==
    /\ WF_vars(WsConnectStart)
    /\ WF_vars(WsConnectTick)
    /\ SF_vars(WsConnectCancel)
    /\ WF_vars(\E ok \in BOOLEAN : WsDial(ok))
    /\ WF_vars(WsConnectSleep)
    /\ WF_vars(WsRunReturn)
    /\ WF_vars(ReadLoopStep)
    /\ WF_vars(WriteLoopStep)
    /\ WF_vars(WsClientSendSelect \/ WsClientCloseFinish)

FairSpec == Spec /\ ServerFairness /\ ClientFairness

\* A process that only runs a WsClient, under fair scheduling.
WsClientFairSpec == InitWsClient /\ [][WsClientNext]_vars /\ ClientFairness

\* ---------------------------------------------------------------- claims
RECURSIVE IsSubSeq(_, _)
\* s is t with some elements left out
IsSubSeq(s, t) ==
    IF s = <<>> THEN TRUE
    ELSE IF t = <<>> THEN FALSE
    ELSE IF Head(s) = Head(t) THEN IsSubSeq(Tail(s), Tail(t))
    ELSE IsSubSeq(s, Tail(t))

Occurrences(m, s) == Cardinality({i \in 1..Len(s) : s[i] = m})

CloseEvents(c) == Cardinality({i \in 1..Len(events[c]) : events[c][i].ev = "close"})

\* the text frames the WsClient wrote, in the order of the writes
WireTexts == [i \in 1..Len(SelectSeq(wire, LAMBDA f : f.t = "text")) |->
                 SelectSeq(wire, LAMBDA f : f.t = "text")[i].m]

\* Client.Send is called on the read pump of c and finds the queue full
SendOnFull(c) ==
    /\ \/ UserSend(c, budget)
       \/ \E reply \in Replies \ {NilWsData} : HandlerReturn(c, reply)
    /\ TrySend(c) = "full"

\* the sendMsg case finds its target in the map with a full queue
SendToOnFull ==
    /\ HubSendMsg
    /\ hcmd.c \in clients
    /\ TrySend(hcmd.c) = "full"

\* C1: in a server process no send is ever attempted on an outbound queue
\* that has been closed (such a send is what panics with "send on closed
\* channel"), whatever the interleaving of Client.Send, sendTo, broadcast,
\* unregister, Hub close(id) and eviction.
NoSendOnClosedQueue == kpc = "none" => PanicSend \notin panics

\* C2: every outbound queue is closed at most once, and the unregister
\* case for a connection that is not in the map changes neither the map
\* nor any queue.
QueueClosedAtMostOnce ==
    /\ [](\A c \in Conns : closes[c] <= 1)
    /\ [][(HubUnregister /\ hcmd.c \notin clients)
            => UNCHANGED <<clients, sendq, closes, accepted, connClosed>>]_vars

\* An unregister command for a connection already removed and closed is
\* about to be processed.
UnregisterOfRemoved ==
    /\ hpc = "unregLocked"
    /\ hcmd.c \notin clients
    /\ closes[hcmd.c] = 1

\* C3: every step that changes the client map is a step of the Hub loop:
\* the register case, the unregister case, an iteration of the broadcast
\* case or the sendMsg case.
MapMutatedOnlyByLoop ==
    [][clients' # clients =>
         \/ HubRegister
         \/ HubUnregister
         \/ \E c \in Conns : HubBroadcastVisit(c)
         \/ HubSendMsg]_vars

\* A connection was accepted and registered by the loop and later removed
\* by it, while another client is still to connect.
RegisteredThenRemoved ==
    \E c, d \in Conns :
        /\ spc[c] = "started"
        /\ c \notin clients
        /\ closes[c] = 1
        /\ spc[d] = "idle"

\* C4: no worker holds the shared lock for a read of the client map
\* (Count, GetClient, Hub Close) in a step in which the map is changed.
MutationExcludesReaders ==
    [][clients' # clients => "app" \notin muR]_vars

BroadcastEvictsFullOnly ==
    /\ [][\A c \in Conns : HubBroadcastVisit(c) =>
            /\ IF Len(sendq[c]) = QueueCap
               THEN /\ clients' = clients \ {c}
                    /\ closes' = [closes EXCEPT ![c] = 1]
                    /\ UNCHANGED sendq
               ELSE /\ sendq' = [sendq EXCEPT ![c] = Append(@, hcmd.m)]
                    /\ UNCHANGED <<clients, closes>>]_vars
    /\ [](hpc = "bcastLocked" /\ htodo = {} =>
            \A c \in Conns :
                Occurrences(hcmd.m, accepted[c]) = IF c \in clients THEN 1 ELSE 0)

\* The range of a broadcast is over: one connection was evicted with its
\* full queue untouched, another one holds the message and is still live.
BroadcastEvictedOne ==
    /\ hpc = "bcastLocked"
    /\ htodo = {}
    /\ \E c, d \in Conns :
        /\ c \notin clients
        /\ closes[c] = 1
        /\ Len(sendq[c]) = QueueCap
        /\ Occurrences(hcmd.m, accepted[c]) = 0
        /\ d \in clients
        /\ Occurrences(hcmd.m, accepted[d]) = 1

\* C7: the sendMsg case for an id that is not in the map changes neither
\* the map nor any queue and closes nothing; Hub Close for an id that is
\* not in the map returns without submitting a command, the map and the
\* queues unchanged.
UnknownIdIsNoOp ==
    [][/\ (HubSendMsg /\ hcmd.c \notin clients) =>
              UNCHANGED <<clients, sendq, closes, accepted, connClosed>>
       /\ (AppRUnlock /\ aarg.op = "close" /\ aarg.id \notin clients) =>
              /\ apc' = "idle"
              /\ UNCHANGED <<clients, sendq, closes, accepted, connClosed, hpc, hcmd>>]_vars

\* The loop is about to process a send to an id that is not in the map
\* while Hub Close looks up an id that is not in the map.
UnknownIdInFlight ==
    /\ hpc = "sendLocked"
    /\ hcmd.c \notin clients
    /\ apc = "rlocked"
    /\ aarg.op = "close"
    /\ aarg.id \notin clients

CloseEventOnReadError ==
    \A c \in Conns :
        /\ CloseEvents(c) <= 1
        /\ CloseEvents(c) = 1 => rerr[c] /\ rpc[c] # "handler"
        /\ (rerr[c] /\ rpc[c] \in {"teardown", "closing", "done"}) => CloseEvents(c) = 1

\* the events of kind e emitted on connection c so far
EventsOf(c, e) == Cardinality({i \in 1..Len(events[c]) : events[c][i].ev = e})

\* C11: when the read of a server connection fails because the read
\* deadline expired, the read pump emits the close event and nothing else
\* (no error event), and goes on to the close callbacks or, with none
\* registered, to the unregister of its teardown.
IdleTimeoutClosesQuietly ==
    [][\A c \in Conns :
          ReadPumpError(c, "timeout") =>
              /\ events'[c] = Append(events[c], [ev |-> "close", n |-> cbs[c]["close"]])
              /\ rpc'[c] = IF cbs[c]["close"] > 0 THEN "cbClose" ELSE "teardown"
              /\ rerr'[c]]_vars

\* A read pump is at the unregister of its teardown after a read error on
\* a socket that nobody closed on this side, with the close event and no
\* error event emitted.
TimedOutQuietly ==
    \E c \in Conns :
        /\ rerr[c]
        /\ ~connClosed[c]
        /\ rpc[c] = "teardown"
        /\ EventsOf(c, "close") = 1
        /\ EventsOf(c, "error") = 0

\* a pump of connection c has returned
PumpExited(c) == rpc[c] \in {"teardown", "closing", "done"} \/ wpc[c] = "done"

\* both pumps of c are gone, c is not in the map, its queue and its socket
\* are closed
TornDown(c) ==
    /\ rpc[c] = "done"
    /\ wpc[c] = "done"
    /\ c \notin clients
    /\ IsClosed(c)
    /\ connClosed[c]

\* C12: once either pump of a server connection has returned, eventually
\* the other pump has returned too, the connection is not in the map of
\* the Hub, and its queue and its socket are closed.
PumpsExitTogether == \A c \in Conns : PumpExited(c) ~> TornDown(c)

\* The same with the runs set aside in which the process dies of a panic
\* or of a fatal map access before the teardown is over.
PumpsExitTogetherOrCrash == \A c \in Conns : PumpExited(c) ~> (crashed \/ TornDown(c))

\* the callbacks run by the open events emitted on connection c so far
OpenCallbacksRun(c) ==
    Cardinality({i \in 1..Len(events[c]) : events[c][i].ev = "open" /\ events[c][i].n > 0})

\* C13: a callback registered for the open event of a server connection
\* is invoked: once one is registered, an open event that runs callbacks
\* is eventually emitted on the connection.
OpenCallbackInvoked ==
    \A c \in Conns : (cbs[c]["open"] > 0) ~> (OpenCallbacksRun(c) > 0)

\* What the code does instead: the open event is emitted at most once per
\* connection, only on a registered connection whose pumps it then starts,
\* and it never runs a callback.
OpenEmittedOnceToNobody ==
    \A c \in Conns :
        /\ EventsOf(c, "open") <= 1
        /\ EventsOf(c, "open") = 1 <=> spc[c] = "started"
        /\ spc[c] \in {"idle", "open"} => rpc[c] = "off" /\ wpc[c] = "off"
        /\ OpenCallbacksRun(c) = 0

\* s is the start of t
IsPrefix(s, t) == Len(s) <= Len(t) /\ s = SubSeq(t, 1, Len(s))

\* C14: an emission calls the callbacks that were registered for the event
\* when it started, in the order of their registration and each once per
\* registration, whatever is registered while it runs: the callbacks
\* called so far are the first hidx - 1 registrations, and all those of
\* the start once the emission is over.
CallbacksRunInOrder ==
    /\ IsPrefix(handlers, registered)
    /\ epc = "loop" => hidx <= Len(handlers) + 1 /\ invoked = SubSeq(handlers, 1, hidx - 1)
    /\ epc = "idle" => invoked = handlers

\* An emission has called a callback registered twice both times, and
\* another callback was registered after it had started and before it
\* returns.
EmittedTwiceDuringOn ==
    /\ epc = "loop"
    /\ Len(handlers) = 2
    /\ handlers[1] = handlers[2]
    /\ invoked = handlers
    /\ Len(registered) > Len(handlers)

\* the reconnecting and open events the handler of the WsClient has seen
DialEvents == SelectSeq(cevents, LAMBDA e : e \in {"reconnecting", "open"})

\* C15: a WsClient whose dials fail stays between the tick and the dial,
\* not connected and without a socket in use, and its handler sees one
\* reconnecting event for the whole streak however many attempts fail:
\* reconnecting and open events alternate, starting with reconnecting, and
\* during a streak of failures the last of them is the reconnecting event.
ReconnectingOncePerStreak ==
    /\ \A i \in 1..Len(DialEvents) :
          DialEvents[i] = IF i % 2 = 1 THEN "reconnecting" ELSE "open"
    /\ attemptCount > 0 =>
          /\ DialEvents # <<>>
          /\ DialEvents[Len(DialEvents)] = "reconnecting"
          /\ kpc \in {"sleep", "tick", "dial", "returned"}
          /\ isConnected = 0
          /\ conn # "open"

\* Every dial of the run has failed and the handler has seen one
\* reconnecting event and nothing else.
StreakOfFailures ==
    /\ attemptCount = MaxCliOps
    /\ cevents = <<"reconnecting">>

\* a loop of the current connection of the WsClient has returned
Severed == kpc = "run" /\ (lrpc = "done" \/ lwpc = "done")

\* the WsClient runs both loops on a connection
Connected ==
    /\ kpc = "run"
    /\ isConnected = 1
    /\ lrpc # "done"
    /\ lwpc # "done"

\* C16: after a loop of a connected WsClient has returned, the WsClient
\* gets connected again (both loops running on a new connection), unless a
\* dial fails, Close is called, the context is cancelled or the dials of
\* the run are used up; and whenever run() is executing, the last dial
\* event the handler saw is an open event and attemptCount is zero.
SeveredThenReconnects ==
    /\ [](kpc = "run" =>
            /\ attemptCount = 0
            /\ DialEvents # <<>>
            /\ DialEvents[Len(DialEvents)] = "open")
    /\ Severed ~> \/ Connected
                  \/ attemptCount > 0
                  \/ isRunning = 0
                  \/ ctxDone
                  \/ kpc = "dial" /\ cbudget = 0

\* The same with the runs set aside in which the process dies.
SeveredThenReconnectsOrCrash ==
    /\ [](kpc = "run" =>
            /\ attemptCount = 0
            /\ DialEvents # <<>>
            /\ DialEvents[Len(DialEvents)] = "open")
    /\ Severed ~> \/ Connected
                  \/ attemptCount > 0
                  \/ isRunning = 0
                  \/ ctxDone
                  \/ kpc = "dial" /\ cbudget = 0
                  \/ crashed

\* The WsClient is connected for the second time: the handler has seen a
\* second open event.
SecondOpen ==
    /\ Connected
    /\ isRunning = 1
    /\ ~ctxDone
    /\ Occurrences("open", cevents) = 2

\* C17: a WsClient on which Close was not called and whose context was not
\* cancelled does not leave the loop of Connect and its handler sees no
\* close event, and after any number of failed dials in a row it gets to
\* the next call of dial().
NeverGivesUp ==
    /\ [](kpc = "returned" \/ Occurrences("close", cevents) > 0 => isRunning = 0 \/ ctxDone)
    /\ (kpc \in {"sleep", "tick"} /\ attemptCount > 0) ~>
          (kpc = "dial" \/ isRunning = 0 \/ ctxDone)

\* Connect is calling dial() again after as many failures in a row as the
\* run allows, Close not called and the context not cancelled.
RedialAfterFailures ==
    /\ kpc = "dial"
    /\ attemptCount = MaxCliOps
    /\ isRunning = 1
    /\ ~ctxDone

\* The dials the run allows are used up while dial() is being called.
OutOfDials == kpc = "dial" /\ cbudget = 0

\* C18: once Close was called or the context was cancelled, Connect
\* returns (after the close event), whatever the WsClient was doing,
\* unless the process dies first.
StopLeadsToClosed ==
    (kpc # "none" /\ (isRunning = 0 \/ ctxDone)) ~>
        (kpc = "returned" \/ crashed \/ OutOfDials)

\* What holds of a cancellation: Connect returns unless the WsClient is
\* or gets connected (or Close is called as well).
CancelWhileDialingLeadsToClosed ==
    (ctxDone /\ kpc \in {"new", "sleep", "tick", "dial"}) ~>
        (kpc = "returned" \/ kpc = "run" \/ isRunning = 0 \/ OutOfDials)

\* What holds of Close: Connect returns unless the process dies of a
\* panic on sendChan.
CloseLeadsToClosed ==
    (kpc # "none" /\ isRunning = 0) ~> (kpc = "returned" \/ crashed \/ OutOfDials)

\* C19: once Close has stored 0 in isRunning, Connect calls dial() no
\* more and the handler sees no further open or reconnecting event.
StopSilencesConnector ==
    [][isRunning = 0 =>
          /\ ~(\E ok \in BOOLEAN : WsDial(ok))
          /\ Occurrences("open", cevents') = Occurrences("open", cevents)
          /\ Occurrences("reconnecting", cevents') = Occurrences("reconnecting", cevents)]_vars

\* C20: the socket of a WsClient is open only while run() executes with
\* both loops alive, and outside run() (at the tick, during dial(), after
\* Connect returned) no loop is left and the socket of the previous
\* connection, if any, is closed: dial() never replaces an open socket.
SingleSocket ==
    /\ conn = "open" =>
          /\ kpc = "run"
          /\ lrpc \in {"read", "handler", "sending"}
          /\ lwpc = "select"
    /\ kpc # "run" => lrpc = "off" /\ lwpc = "off"

\* Connect is calling dial() again after a connection whose loops have
\* both returned and whose socket is closed.
RedialAfterClosedSocket ==
    /\ kpc = "dial"
    /\ conn = "closed"
    /\ lrpc = "off"
    /\ lwpc = "off"
    /\ Occurrences("open", cevents) = 1

\* C21: the frames passed to Send before the first successful dial stay
\* in sendChan, which never holds more than its capacity, a Send that
\* finds it full returns with the frame dropped, and while the write loop
\* of the first connection runs the frames written so far followed by
\* those still in sendChan are the frames accepted, in the order of their
\* acceptance.
HeldThenWrittenInOrder ==
    /\ [](Len(sendChan) <= CliQueueCap)
    /\ [](Occurrences("open", cevents) = 0 => sendChan = queued /\ wire = <<>>)
    /\ [](Occurrences("open", cevents) = 1 /\ lwpc = "select" =>
             WireTexts \o sendChan = queued)
    /\ [][WsClientSendSelect /\ CliTrySend = "full" =>
             UNCHANGED <<sendChan, queued>> /\ upc' = "idle"]_vars

\* The first two calls of the run were calls of Send, made before the
\* dial, and the write loop of the first connection has written both
\* frames in that order.
QueuedBeforeDialWritten ==
    /\ Occurrences("open", cevents) = 1
    /\ queued = <<MaxCliOps, MaxCliOps - 1>>
    /\ WireTexts = queued

\* C22: once Close has stored 0 in isRunning no frame is accepted into
\* sendChan any more, and no send is attempted on sendChan after it was
\* closed (such a send panics).
SendAfterStopDropped ==
    [][isRunning = 0 => queued' = queued /\ PanicSend \notin panics']_vars

\* The part about the closed queue alone.
NoSendOnClosedSendChan == PanicSend \notin panics

\* WsHub.Count(): len(h.clients) under the shared lock
Count == Cardinality(clients)

\* the connections serveWs has sent on hub.register
Submitted == {c \in Conns : spc[c] \in {"open", "started"}}

\* C23: when the Hub loop has processed every register command it was
\* sent and no entry was removed (no queue was closed by an unregister or
\* an eviction), the map holds exactly the registered connections and
\* Count() is their number.
CountAfterRegisters ==
    (hcmd.kind # "register" /\ \A c \in Conns : ~IsClosed(c)) =>
        /\ clients = Submitted
        /\ Count = Cardinality(Submitted)

\* The loop has processed the register commands of two clients whose
\* serveWs calls are both still before the open event, and waits for the
\* next command.
TwoRegistered ==
    /\ hpc = "select"
    /\ \A c \in Conns : spc[c] = "open"
    /\ Count = 2

\* C24: the sendMsg case of the Hub loop, for an identity that is in the
\* map and whose queue has room, appends the frame once at the tail of
\* that client's queue and changes neither the map nor any other queue.
SendToAppendsOne ==
    [][HubSendMsg /\ hcmd.c \in clients /\ Len(sendq[hcmd.c]) < QueueCap =>
          /\ sendq' = [sendq EXCEPT ![hcmd.c] = Append(@, hcmd.m)]
          /\ clients' = clients]_vars

\* Hub.Send to client 2 has been processed while client 1's queue was
\* full: client 2 holds the frame, client 1 its earlier frames, and both
\* are still in the map.
SentToOneOnly ==
    /\ hpc = "select"
    /\ clients = Conns
    /\ sendq[2] = <<MaxOps - 1>>
    /\ sendq[1] = [i \in 1..QueueCap |-> Earlier(i)]

\* C25: a WsData written with ToJSON and read back with NewWsData has the
\* same keys and, under each key, an equal value (the same dynamic type
\* and contents).
RoundTripEqual ==
    jpc = "back" =>
        /\ DOMAIN parsed.kv = DOMAIN wsData.kv
        /\ \A k \in DOMAIN wsData.kv : parsed.kv[k] = wsData.kv[k]

\* What the decoder makes of a value: an int comes back as the float64 of
\* the same number, at any depth.
RECURSIVE Widen(_)
Widen(v) ==
    CASE v.t = "int" -> GoFloat64(2 * v.n)
      [] v.t = "map" -> GoMap([k \in DOMAIN v.m |-> Widen(v.m[k])])
      [] OTHER -> v

\* What does hold of the round trip: the keys are kept, every value but an
\* int comes back equal, and WsData.Int reads the same number before and
\* after; WsData.Float does not (0 for an int, the number once decoded).
RoundTripWidens ==
    jpc = "back" =>
        /\ parsed.nil = wsData.nil
        /\ DOMAIN parsed.kv = DOMAIN wsData.kv
        /\ \A k \in DOMAIN wsData.kv :
              /\ parsed.kv[k] = Widen(wsData.kv[k])
              /\ WsDataInt(parsed, k) = WsDataInt(wsData, k)

RoundTripSameFloat ==
    jpc = "back" =>
        \A k \in DOMAIN wsData.kv : WsDataFloat(parsed, k) = WsDataFloat(wsData, k)

\* the frame is one JSON object, as opposed to any other text
ValidObject(jsonBytes) ==
    LET pv == ParseValue(jsonBytes)
    IN pv.ok /\ pv.rest = <<>> /\ pv.v.t = "map"

\* C26: for a frame that is not one JSON object NewWsData returns a WsData
\* without keys, and nothing panics.
MalformedGivesEmpty ==
    jpc = "parsed" /\ ~ValidObject(message) =>
        /\ DOMAIN parsed.kv = {}
        /\ panics = {}
        /\ ~crashed

\* An object cut off before its closing brace has been handed to
\* NewWsData.
TruncatedObjectParsed ==
    /\ jpc = "parsed"
    /\ message = <<Tok("{"), StrTok("a"), Tok(":"), NumTok(2)>>
    /\ parsed = MakeWsData(EmptyMap)

\* C27: Connect sleeps the reconnect interval only when dial() has just
\* failed: it gets to the sleep from a failed dial and from nowhere else,
\* so while it sleeps attemptCount counts a failure, and from the return of
\* run() it goes to the next tick of the select without a sleep.
SleepsOnlyAfterFailedDial ==
    /\ [](kpc = "sleep" => attemptCount > 0 /\ isConnected = 0)
    /\ [][kpc # "sleep" /\ kpc' = "sleep" =>
             kpc = "dial" /\ attemptCount' = attemptCount + 1]_vars
    /\ [][kpc = "run" /\ kpc' # "run" => kpc' = "tick"]_vars

\* The connection was lost and Connect is at its next dial without a
\* failure counted, the handler having seen one open event.
RedialWithoutSleep ==
    /\ kpc = "dial"
    /\ attemptCount = 0
    /\ Occurrences("open", cevents) = 1
    /\ isRunning = 1

\* C28: a dial that succeeds at the first attempt of a streak (at the
\* start, or at the first redial after a loss) hands the handler an open
\* event and no reconnecting event.
FirstDialSuccessOnlyOpens ==
    [][(\E ok \in BOOLEAN : WsDial(ok)) /\ attemptCount = 0 /\ conn' = "open" =>
          cevents' = Append(cevents, "open")]_vars

\* C29: when the handler returns, a reply frame is enqueued on the
\* connection (its queue open and with room) exactly if the handler
\* returned a WsData with at least one key, in readPump of the server and
\* in readLoop of a running WsClient alike.
ReplyIffNonEmpty ==
    /\ [][\A c \in Conns, reply \in Replies :
            HandlerReturn(c, reply) /\ TrySend(c) = "ok" =>
                (accepted'[c] # accepted[c] <=> DOMAIN reply.kv # {})]_vars
    /\ [][\A reply \in Replies :
            WsReadLoopHandlerReturn(reply) /\ isRunning = 1 =>
                (lrpc' = "sending" <=> DOMAIN reply.kv # {})]_vars

\* What the code does: the reply is sent exactly if it is not nil, a
\* WsData without keys as the text {}.
ReplyIffNotNil ==
    /\ [][\A c \in Conns, reply \in Replies :
            HandlerReturn(c, reply) /\ TrySend(c) = "ok" =>
                accepted'[c] = IF reply.nil THEN accepted[c]
                               ELSE Append(accepted[c], ReplyFrame(reply, rin[c]))]_vars
    /\ [][\A reply \in Replies :
            WsReadLoopHandlerReturn(reply) /\ isRunning = 1 =>
                (lrpc' = "sending" <=> ~reply.nil)]_vars

\* C30: a frame that is not a JSON object, read by readPump, has the
\* handler called with a WsData without keys and changes neither the map
\* nor the queue nor the socket of the connection; when that call returns
\* without a reply the pump is back at ReadMessage, the connection as it
\* was.
MalformedFrameKeepsReading ==
    /\ [][\A c \in Conns, frame \in InboundFrames :
            ReadPumpMessage(c, frame) /\ ~ValidObject(frame) =>
                /\ rpc'[c] = "handler"
                /\ DOMAIN rdata'[c].kv = {}
                /\ UNCHANGED <<clients, closes, connClosed, sendq, crashed>>]_vars
    /\ [][\A c \in Conns :
            HandlerReturn(c, NilWsData) /\ DOMAIN rdata[c].kv = {} =>
                /\ rpc'[c] = "read"
                /\ UNCHANGED <<clients, closes, connClosed, sendq, crashed>>]_vars

\* The handler of a live connection is running on the WsData made of a
\* frame that was cut off, the queue of the connection open.
HandlerOnMalformedFrame ==
    \E c \in clients :
        /\ rpc[c] = "handler"
        /\ rdata[c] = MakeWsData(EmptyMap)
        /\ ~IsClosed(c)
        /\ ~connClosed[c]

\* C31: a panic of the message handler is caught where the pump calls it:
\* readPump of the server and readLoop of a WsClient go on to the next
\* ReadMessage, and the process does not die of it.
HandlerPanicCaught ==
    /\ []~(crashed /\ panics = {PanicHandler})
    /\ [][\A c \in Conns : HandlerPanic(c) => rpc'[c] = "read"]_vars
    /\ [][WsReadLoopHandlerPanic => lrpc' = "read" /\ ~crashed']_vars

\* the events a step of the read pump of c emits
NewEvents(c) == SubSeq(events'[c], Len(events[c]) + 1, Len(events'[c]))

\* a close frame of the peer with a code other than going away (1001) and
\* abnormal closure (1006)
PeerCloseOtherCode(k) == k \in {"close1000", "close1002"}

\* C32: a read that fails emits an error event exactly if the error is a
\* close frame of the peer with a code other than 1001 and 1006; on the
\* server the error event comes before the close event, and an expired
\* deadline or a network error emits the close event alone.  A WsClient
\* hands its handler an error event in the same cases and in no other.
ErrorEventIffUnexpectedClose ==
    /\ [][\A c \in Conns, k \in ErrKinds :
            ReadPumpError(c, k) =>
                /\ PeerCloseOtherCode(k) =>
                      /\ NewEvents(c) # <<>>
                      /\ NewEvents(c)[1].ev = "error"
                      /\ \A i \in 2..Len(NewEvents(c)) : NewEvents(c)[i].ev = "close"
                /\ ~PeerCloseOtherCode(k) =>
                      /\ Len(NewEvents(c)) = 1
                      /\ NewEvents(c)[1].ev = "close"]_vars
    /\ [][\A k \in ErrKinds :
            WsReadLoopError(k) =>
                cevents' = IF PeerCloseOtherCode(k) THEN Append(cevents, "error")
                           ELSE cevents]_vars

\* The read of a server connection failed with a close frame of the peer:
\* the error event and then the close event were emitted.
ErrorThenCloseEmitted ==
    \E c \in Conns :
        /\ rerr[c]
        /\ Len(events[c]) >= 2
        /\ events[c][Len(events[c]) - 1].ev = "error"
        /\ events[c][Len(events[c])].ev = "close"

\* C33: every text frame the write pump of a server connection has written
\* holds one message of the queue.
OneMessagePerFrame ==
    \A c \in Conns : \A i \in 1..Len(sock[c]) :
        sock[c][i].t = "text" => Len(sock[c][i].msgs) = 1

\* C34: whichever way the global Hub was made, once a route is registered
\* its loop runs, so that a serveWs parked on hub.register is received from
\* and its client gets into the map.
HubLoopStarted ==
    /\ [](hpc # "new")
    /\ \A c \in Conns : (spc[c] = "registerWait") ~> (c \in clients)

\* What holds of the Hub that Router.Ws makes itself.
LazyHubLoopStarted ==
    [][RouterWs /\ hpc = "nil" => hpc' = "select"]_vars

\* a caller of Hub.Send, Hub.Broadcast or Hub.Close is parked on a command
\* channel of a Hub whose loop runs
AppParked == hpc # "new" /\ apc \in {"sendWait", "bcastWait", "closeWait"}

\* the read pump of c is parked on the unregister channel
PumpParked(c) == rpc[c] \in {"sendFull", "closeWait", "teardown"}

\* C35: the loop of a running Hub gets back to its select whatever the
\* state of the queues, and every command a worker is parked with is taken:
\* the call of the application returns and the read pump goes on.
CommandsProcessed ==
    /\ (hpc \notin {"nil", "assigned", "new", "select"}) ~> (hpc = "select")
    /\ AppParked ~> (apc = "idle")
    /\ \A c \in Conns : PumpParked(c) ~> ~PumpParked(c)

\* The same with the runs set aside in which the process dies.
CommandsProcessedOrCrash ==
    /\ (hpc \notin {"nil", "assigned", "new", "select"}) ~> (crashed \/ hpc = "select")
    /\ AppParked ~> (crashed \/ apc = "idle")
    /\ \A c \in Conns : PumpParked(c) ~> (crashed \/ ~PumpParked(c))

\* The register command of connection c has been processed by the loop:
\* serveWs is past "hub.register <- client" and the loop is past the
\* register case.
Registered(c) ==
    /\ spc[c] \notin {"absent", "idle", "registerWait"}
    /\ ~(hpc \in {"regLock", "regLocked"} /\ hcmd.c = c)

\* C36: in every reachable state a connection in the Hub's map has an open
\* queue, and a connection that was registered and is no longer in the map
\* has its queue closed: the loop removes and closes in one step, in the
\* unregister case and in the eviction of the broadcast and sendMsg cases.
LiveIffQueueOpen ==
    \A c \in Conns :
        /\ c \in clients => ~IsClosed(c)
        /\ Registered(c) /\ c \notin clients => IsClosed(c)

\* A connection was removed by the unregister command of its read pump,
\* which has ended since, and its queue is closed.
UnregisteredAndClosed ==
    \E d \in Conns :
        /\ Registered(d) /\ d \notin clients /\ IsClosed(d)
        /\ rpc[d] = "done"
        /\ hpc = "select"

\* C37: the Connector's outbound queue is closed at most once in any
\* execution, also when Close is called more than once: no second
\* close(c.sendChan) is executed and the process never dies of one.
SendChanClosedAtMostOnce ==
    /\ chanCloses <= 1
    /\ ~(crashed /\ PanicClose \in panics /\ chanCloses > 0)

\* C38: for a Connector whose Connect runs once, the handler never runs in
\* two workers at a time: the read loop calls it (message, error) only
\* while Connect is blocked in run(), Connect calls it (open, reconnecting,
\* close) only while no read loop exists, and nothing follows the close
\* event.
HandlerInOneWorker ==
    /\ [](lrpc = "handler" => kpc = "run")
    /\ [](\A i \in 1..Len(cevents) : cevents[i] = "close" => i = Len(cevents))
    /\ [][Len(cevents') > Len(cevents) =>
            IF cevents'[Len(cevents')] = "error"
            THEN kpc = "run" /\ lrpc = "read"
            ELSE lrpc = "off"]_vars

\* The read loop is inside the handler for a message when the context is
\* cancelled: Connect, blocked in run(), cannot call the handler for the
\* close event yet.
CancelledWhileHandling ==
    /\ lrpc = "handler"
    /\ kpc = "run"
    /\ ctxDone
    /\ cevents # <<>> /\ cevents[Len(cevents)] = "open"

\* C39: a close frame is written by the write pump of a connection only
\* after every message accepted into its queue, the ones still buffered
\* when the queue was closed included, has been written to the socket, in
\* the order of the queue.
BufferedWrittenBeforeClose ==
    \A c \in Conns :
        (sock[c] # <<>> /\ sock[c][Len(sock[c])].t = "close")
            => /\ Flatten(sock[c]) = accepted[c]
               /\ sendq[c] = <<>>
               /\ wpc[c] = "done"

\* A connection was evicted with its queue full, its read pump still
\* reading, and its write pump has written the buffered messages and then
\* the close frame.
EvictedQueueDrained ==
    \E c \in Conns :
        /\ c \notin clients /\ IsClosed(c)
        /\ rpc[c] = "read"
        /\ Len(accepted[c]) >= QueueCap
        /\ Len(sock[c]) >= 2
        /\ sock[c][Len(sock[c])].t = "close"
        /\ sock[c][Len(sock[c]) - 1].t = "text"

\* C40: every WsData returned by NewWsData, whatever the bytes it was given,
\* accepts Set(key, value): the call returns, and afterwards Has(key) is
\* true and Get(key) is the value.
SetAfterNewWsData ==
    /\ [](jpc = "set" => ~crashed /\ PanicNilMap \notin panics)
    /\ [][\A key \in Keys, value \in SetValues :
            CallSet(key, value) =>
                /\ WsDataHas(parsed', key)
                /\ WsDataGet(parsed', key) = value]_vars

\* The same for the inputs that are not the JSON literal null.
SetAfterNewWsDataNotNull ==
    /\ [](jpc = "set" /\ message # <<Tok("null")>> => ~crashed)
    /\ [][\A key \in Keys, value \in SetValues :
            CallSet(key, value) /\ message # <<Tok("null")>> =>
                /\ WsDataHas(parsed', key)
                /\ WsDataGet(parsed', key) = value]_vars

====
